---------------------------- MODULE Spec2Model ----------------------------
(***************************************************************************)
(* State-machine model of the connection and event subsystem of the        *)
(* Selendra SDK (rust/src/connection/mod.rs, rust/src/evm/events.rs).      *)
(*                                                                         *)
(* The module holds several independent components, each with its own      *)
(* specification:                                                          *)
(*   SpecCache     EventCache: add_event, clear_before, one call at a time *)
(*   SpecCacheAdds EventCache: add_event calls only                        *)
(*   SpecCacheConcurrent  EventCache under concurrent callers              *)
(*   SpecStatus    the status combination of update_overall_status         *)
(*   SpecManager   ConnectionManager driven by one sequential caller       *)
(*   SpecMonitor   ConnectionManager + HealthMonitor loops + caller        *)
(*   SpecRace      ConnectionManager under calls that interleave           *)
(*   SpecListener  EventListener: start, stop and the polling loops        *)
(*   SpecPolling   EventListener started and not stopped: its polling loop *)
(*   SpecPollingFair  SpecPolling with the loop's scheduling as fairness   *)
(*   SpecAddress   the address conversions of unified/account.rs           *)
(*   SpecBalance   BalanceCache of old/rust/src/unified/balance.rs         *)
(*   SpecRecover   the caller's calls and the monitor, its loops scheduled  *)
(*   SpecLocks     the lock guards the EventCache's calls take             *)
(*   SpecPoolFair  ConnectionPool, a call that can take a step taking it   *)
(*   SpecRetry     execute_with_timeout of old/rust/src/evm/client.rs      *)
(* A specification leaves the variables of the other components unchanged. *)
(***************************************************************************)
EXTENDS Integers, Sequences, FiniteSets, TLC

VARIABLES
    \* ---- EventCache (events.rs:512-516)
    events,          \* primary store: identifier -> ProcessedEvent
    by_block,        \* block number -> sequence of identifiers
    by_address,      \* contract address -> sequence of identifiers
    n_adds,          \* number of add_event calls made so far (bounds the run)
    add_pc,          \* task -> position in the add_event call it is running
    add_event,       \* task -> the event of that call
    \* ---- status combination, as a function of its two inputs
    comb_in,         \* <<substrate status, evm status>>
    comb_out,        \* the aggregate computed from comb_in, or NoStatus
    \* ---- ConnectionManager (connection/mod.rs:67-74)
    config,                 \* ConnectionConfig, immutable after construction
    substrate_connection,   \* Option<SubstrateConnection>: "None" | "Some"
    evm_client,             \* Option<EVMClient>: "None" | "Some"
    status,                 \* aggregate ConnectionStatus
    substrate_status,       \* per-chain ConnectionStatus
    evm_status,             \* per-chain ConnectionStatus
    \* ---- HealthMonitor (connection/mod.rs:335-338)
    running,                \* the monitor's owned running flag
    ever_stopped,           \* history: stop() has been called on the monitor
    \* ---- tasks: the caller (process 0) and the spawned monitor loops (1..)
    pc,              \* task -> position in the code
    ret,             \* task -> stack of positions to continue at on return
    attempt,         \* task -> outcome of the connection attempts of its initialize()
    err,             \* task -> the error `e` of a failed attempt
    rd,              \* task -> the statuses update_overall_status has read
    health,          \* task -> the HealthStatus its health_check() is building
    op,              \* task -> the operation it last entered
    result,          \* task -> what that operation returned
    \* ---- EventListener (evm/events.rs:99-104) and its polling loops
    el_config,       \* EventListenerConfig: the field from_block
    event_handlers,  \* signature -> the handlers registered under it, in order
    el_running,      \* the listener's running flag
    head,            \* the chain's latest block number
    el_pc,           \* polling loop -> position in event_processing_loop
    last_block,      \* polling loop -> its cursor `last_block`
    last_query,      \* polling loop -> block range <<from, to>> of the log
                     \*   query it issued last, <<>> before its first one
    rx_alive,        \* polling loop -> the EventStream of its channel exists
    channel,         \* polling loop -> the records sent on its channel
    handled,         \* polling loop -> the handler invocations made: handler,
                     \*   record, and the number of records sent before it
    el_op,           \* the listener call the caller made last
    el_result,       \* what that call returned
    \* ---- unified addresses (unified/account.rs)
    keccak256,       \* Keccak-256 on the account ids it is applied to
    ua_trace,        \* the address drawn, then the result of each conversion
    ua_calls,        \* the conversions applied, in order
    ua_same,         \* <<other, result>> of an are_same_entity call, or <<>>
    \* ---- BalanceCache (old/rust/src/unified/balance.rs:216-219)
    bc_cache,        \* key -> CachedBalance
    ttl_seconds,     \* the cache's time to live
    now,             \* the system clock's reading, in seconds
    overflow_checks, \* the build panics on integer overflow (else it wraps)
    bc_ret,          \* the call made last on the cache, and what it returned
    \* ---- the locks of the EventCache (evm/events.rs:512-516)
    lk_pos,          \* call -> the step of its lock plan it is at, 0 outside it
    lk_held,         \* call -> the <<lock, mode>> guards it holds
    \* ---- ConnectionPool (connection/mod.rs:399-402)
    connections,     \* the pooled managers: each one's aggregate status kind
    pool_pc,         \* pool call -> its position
    pool_held,       \* pool call -> the guards it holds on `connections`
    pool_i,          \* the index clear()'s iteration is at
    \* ---- EVMClient::execute_with_timeout (old/rust/src/evm/client.rs:301-327)
    max_retries,     \* config.max_retries
    timeout,         \* config.timeout, in seconds
    rt_pc,           \* position in execute_with_timeout
    rt_attempt,      \* the loop variable `attempt`
    rt_calls,        \* what each call of f() made so far came to
    rt_sleeps,       \* the milliseconds slept, in order
    last_error,      \* the local last_error
    rt_result,       \* what execute_with_timeout returned
    \* ---- the network the manager connects to
    settled          \* from now on every connection attempt and every probe
                     \*   succeeds, and only the monitor uses the manager

cacheVars == <<events, by_block, by_address, n_adds>>
adderVars == <<add_pc, add_event>>
combVars == <<comb_in, comb_out>>
managerVars == <<substrate_connection, evm_client, status, substrate_status, evm_status>>
monitorVars == <<running, ever_stopped>>
taskVars == <<pc, ret, attempt, err, rd, health, op, result>>
connVars == <<config, managerVars, monitorVars, taskVars>>

listenerVars ==
    <<el_config, event_handlers, el_running, head, el_pc, last_block, last_query, rx_alive,
      channel, handled, el_op, el_result>>

addressVars == <<keccak256, ua_trace, ua_calls, ua_same>>

balanceVars == <<bc_cache, ttl_seconds, now, overflow_checks, bc_ret>>

lockVars == <<lk_pos, lk_held>>
poolVars == <<connections, pool_pc, pool_held, pool_i>>
retryVars ==
    <<max_retries, timeout, rt_pc, rt_attempt, rt_calls, rt_sleeps, last_error,
      rt_result>>

envVars == <<settled>>

vars ==
    <<cacheVars, adderVars, combVars, connVars, listenerVars, addressVars,
      balanceVars, lockVars, poolVars, retryVars, envVars>>

\* What an action of one component leaves unchanged: the other components.
cacheOthers ==
    <<adderVars, combVars, connVars, listenerVars, addressVars, balanceVars,
      lockVars, poolVars, retryVars, envVars>>
combOthers ==
    <<cacheVars, adderVars, connVars, listenerVars, addressVars, balanceVars,
      lockVars, poolVars, retryVars, envVars>>
connOthers ==
    <<cacheVars, adderVars, combVars, listenerVars, addressVars, balanceVars,
      lockVars, poolVars, retryVars, envVars>>
listenerOthers ==
    <<cacheVars, adderVars, combVars, connVars, addressVars, balanceVars,
      lockVars, poolVars, retryVars, envVars>>
adderOthers ==
    <<combVars, connVars, listenerVars, addressVars, balanceVars,
      lockVars, poolVars, retryVars, envVars>>
addressOthers ==
    <<cacheVars, adderVars, combVars, connVars, listenerVars, balanceVars,
      lockVars, poolVars, retryVars, envVars>>
balanceOthers ==
    <<cacheVars, adderVars, combVars, connVars, listenerVars, addressVars,
      lockVars, poolVars, retryVars, envVars>>
lockOthers ==
    <<cacheVars, adderVars, combVars, connVars, listenerVars, addressVars,
      balanceVars, poolVars, retryVars, envVars>>
poolOthers ==
    <<cacheVars, adderVars, combVars, connVars, listenerVars, addressVars,
      balanceVars, lockVars, retryVars, envVars>>
envOthers ==
    <<cacheVars, adderVars, combVars, connVars, listenerVars, addressVars,
      balanceVars, lockVars, poolVars, retryVars>>
retryOthers ==
    <<cacheVars, adderVars, combVars, connVars, listenerVars, addressVars,
      balanceVars, lockVars, poolVars, envVars>>

----------------------------------------------------------------------------
(* Bounds of the model *)

MaxBlock == 2
MaxAdds == 2
MaxLoops == 2
MaxHead == 2
MaxPollers == 2
MaxHandlers == 2
MaxAdders == 1
\* monitor loops whose calls of the manager interleave with the caller's
MaxRacers == 1
\* 20-byte address samples are numbered 0..MaxAddr
MaxAddr == 1
\* conversions applied in a row to one address
MaxConversions == 2
\* BalanceCache keys are 1..MaxKeys
MaxKeys == 2
\* clock readings are 0..MaxClock
MaxClock == 3
\* the time to live is 1..MaxTtl
MaxTtl == 2
\* managers in the ConnectionPool
MaxPool == 4
\* config.max_retries is 0..MaxRetries, config.timeout 1..MaxTimeout
MaxRetries == 3
MaxTimeout == 3

----------------------------------------------------------------------------
(* EventCache *)

Blocks == 1..MaxBlock
TxHashes == {"tx1", "tx2"}
LogIndexes == {0}
Addresses == {"a1", "a2"}
Datas == {"d1", "d2"}
Timestamps == {0, 1}

\* ProcessedEvent, reduced to the fields the cache reads or that enter the
\* identifier; the remaining fields (signature, block hash, topics, ...) are
\* carried by `data`.
ProcessedEvent ==
    [block_number : Blocks, transaction_hash : TxHashes, log_index : LogIndexes,
     contract_address : Addresses, data : Datas, processed_at : Timestamps]

\* H256::from_slice(keccak256(serde_json::to_vec(&event))): a digest of the
\* serialisation of ALL fields of the record.  The digest is modelled as
\* collision free; it is the serialised field list.
EventHash(event) ==
    <<event.block_number, event.transaction_hash, event.log_index,
      event.contract_address, event.data, event.processed_at>>

\* H256::default(): the all-zero identifier, which is the digest of no record.
ZeroHash == <<>>

\* map.entry(k).or_insert_with(Vec::new).push(v)
EntryPush(map, k, v) ==
    [x \in DOMAIN map \cup {k} |->
        IF x = k
        THEN (IF k \in DOMAIN map THEN Append(map[k], v) ELSE <<v>>)
        ELSE map[x]]

\* HashMap::insert(k, v)
MapInsert(map, k, v) ==
    [x \in DOMAIN map \cup {k} |-> IF x = k THEN v ELSE map[x]]

\* HashMap::retain on the keys kept
Restrict(map, keep) == [x \in keep |-> map[x]]

EmptyMap == [x \in {} |-> x]

\* The tasks that call add_event concurrently with the other callers.
Adders == 1..MaxAdders

NoEvent == <<>>

\* EventCache::new; no call is in progress.
CacheInit ==
    /\ events = EmptyMap
    /\ by_block = EmptyMap
    /\ by_address = EmptyMap
    /\ n_adds = 0
    /\ add_pc = [t \in Adders |-> "idle"]
    /\ add_event = [t \in Adders |-> NoEvent]

\* The identifier add_event stores `event` under.
AddEventKey(event) == EventHash(event)

\* EventCache::add_event
AddEvent(event) ==
    LET event_hash == AddEventKey(event) IN
    /\ n_adds < MaxAdds
    /\ n_adds' = n_adds + 1
    /\ events' = MapInsert(events, event_hash, event)
    /\ by_block' = EntryPush(by_block, event.block_number, event_hash)
    /\ by_address' = EntryPush(by_address, event.contract_address, event_hash)
    /\ UNCHANGED cacheOthers

\* The identifier clear_before pushes for a retained event when it rebuilds
\* the address index: `H256::default()`, not the event's identifier.
RebuildKey(h) == ZeroHash

\* The address index clear_before rebuilds from the retained entries: one
\* pushed identifier per retained event, under the event's contract address.
\* (HashMap iteration order is unspecified; every pushed value is the same.)
RECURSIVE RebuildIndex(_, _)
RebuildIndex(kept, hs) ==
    IF hs = {} THEN EmptyMap
    ELSE LET h == CHOOSE x \in hs : TRUE
         IN  EntryPush(RebuildIndex(kept, hs \ {h}),
                       kept[h].contract_address, RebuildKey(h))

\* A retain that also drops the threshold block itself.
BlocksAbove(block_number) == {b \in DOMAIN by_block : b > block_number}

\* by_block.retain(|block_num, _| block_num >= &block_number) (line 600)
BlocksRetained(block_number) == {b \in DOMAIN by_block : b >= block_number}

\* EventCache::clear_before
ClearBefore(block_number) ==
    LET keep == {h \in DOMAIN events : events[h].block_number >= block_number}
        kept == Restrict(events, keep)
    IN  /\ events' = kept
        /\ by_block' = Restrict(by_block, BlocksRetained(block_number))
        /\ by_address' = RebuildIndex(kept, keep)
        /\ UNCHANGED <<n_adds, cacheOthers>>

(* add_event takes the write lock of each map for one statement only, so    *)
(* other calls can run between its three statements; clear_before holds    *)
(* the three write locks throughout and is one step.                       *)

\* lines 530-533: the identifier is computed and the event inserted in the store
AddStore(t, event) ==
    /\ add_pc[t] = "idle"
    /\ n_adds < MaxAdds
    /\ n_adds' = n_adds + 1
    /\ events' = MapInsert(events, AddEventKey(event), event)
    /\ add_pc' = [add_pc EXCEPT ![t] = "by_block"]
    /\ add_event' = [add_event EXCEPT ![t] = event]
    /\ UNCHANGED <<by_block, by_address, adderOthers>>

\* lines 536-539: the identifier is pushed to the block index
AddByBlock(t) ==
    /\ add_pc[t] = "by_block"
    /\ by_block' = EntryPush(by_block, add_event[t].block_number,
                             AddEventKey(add_event[t]))
    /\ add_pc' = [add_pc EXCEPT ![t] = "by_address"]
    /\ UNCHANGED <<events, by_address, n_adds, add_event, adderOthers>>

\* lines 542-545: the identifier is pushed to the address index; the call returns
AddByAddress(t) ==
    /\ add_pc[t] = "by_address"
    /\ by_address' = EntryPush(by_address, add_event[t].contract_address,
                               AddEventKey(add_event[t]))
    /\ add_pc' = [add_pc EXCEPT ![t] = "idle"]
    /\ add_event' = [add_event EXCEPT ![t] = NoEvent]
    /\ UNCHANGED <<events, by_block, n_adds, adderOthers>>

ConcurrentCacheNext ==
    \/ \E t \in Adders : \E event \in ProcessedEvent : AddStore(t, event)
    \/ \E t \in Adders : AddByBlock(t)
    \/ \E t \in Adders : AddByAddress(t)
    \/ \E block_number \in 0..(MaxBlock + 1) : ClearBefore(block_number)

\* event_hashes.iter().filter_map(|hash| events.get(hash).cloned()).collect()
RECURSIVE FilterMap(_)
FilterMap(event_hashes) ==
    IF event_hashes = <<>> THEN <<>>
    ELSE (IF Head(event_hashes) \in DOMAIN events
          THEN <<events[Head(event_hashes)]>>
          ELSE <<>>) \o FilterMap(Tail(event_hashes))

\* EventCache::get_events_by_block
GetEventsByBlock(block_number) ==
    IF block_number \in DOMAIN by_block
    THEN FilterMap(by_block[block_number])
    ELSE <<>>

\* EventCache::get_events_by_address
GetEventsByAddress(address) ==
    IF address \in DOMAIN by_address
    THEN FilterMap(by_address[address])
    ELSE <<>>

\* EventCache::get_events_in_range: the values of the store within the range,
\* collected in the map's iteration order, which is unspecified: the result is
\* given as the set of its elements (distinct keys hold distinct events).
GetEventsInRange(from_block, to_block) ==
    {events[h] : h \in {x \in DOMAIN events :
                            /\ events[x].block_number >= from_block
                            /\ events[x].block_number <= to_block}}

CacheNext ==
    \/ \E event \in ProcessedEvent : AddEvent(event)
    \/ \E block_number \in 0..(MaxBlock + 1) : ClearBefore(block_number)

----------------------------------------------------------------------------
(* ConnectionStatus and the status combination *)

\* ConnectionStatus (connection/mod.rs:24-30).  A status is a record of its
\* variant and, for Error, its reason: a message, as the list of its parts.
Disconnected == [kind |-> "Disconnected", reason |-> <<>>]
Connecting == [kind |-> "Connecting", reason |-> <<>>]
Connected == [kind |-> "Connected", reason |-> <<>>]
Reconnecting == [kind |-> "Reconnecting", reason |-> <<>>]
Error(reason) == [kind |-> "Error", reason |-> reason]

StatusKinds == {"Disconnected", "Connecting", "Connected", "Reconnecting", "Error"}

\* What made a connection attempt fail (the inner error's text).
Causes == {"timeout", "refused"}

\* The causes the connection attempts of the manager's runs fail with.
AttemptCauses == {"refused"}

\* e.to_string() of the ConnectionError initialize_substrate / initialize_evm
\* map a failure to: "Connection error: Failed to connect to <chain>: <cause>".
SubstrateConnectError(cause) ==
    <<"Connection error", "Failed to connect to Substrate", cause>>
EvmConnectError(cause) ==
    <<"Connection error", "Failed to connect to EVM", cause>>

ConnectErrors ==
    {SubstrateConnectError(c) : c \in Causes} \cup {EvmConnectError(c) : c \in Causes}

\* The per-chain status values: the four plain variants and Error(reason).
ChainStatuses ==
    {Disconnected, Connecting, Connected, Reconnecting}
        \cup {Error(r) : r \in ConnectErrors}

\* update_overall_status with the partial-connectivity arms ahead of the error
\* arms: a connected chain then outweighs a failed one.
OverallStatusPartialFirst(s, e) ==
    CASE s.kind = "Connected" /\ e.kind = "Connected" -> Connected
      [] \/ s.kind = "Connected" /\ e.kind \in {"Disconnected", "Error"}
         \/ s.kind \in {"Disconnected", "Error"} /\ e.kind = "Connected" -> Connected
      [] s.kind = "Error" /\ e.kind = "Error" ->
            Error(<<"Both connections failed">> \o s.reason \o <<"|">> \o e.reason)
      [] s.kind = "Error" /\ e.kind # "Error" ->
            Error(<<"One connection failed">> \o s.reason)
      [] s.kind # "Error" /\ e.kind = "Error" ->
            Error(<<"One connection failed">> \o e.reason)
      [] \/ s.kind = "Connecting" /\ e.kind = "Connected"
         \/ s.kind = "Connected" /\ e.kind = "Connecting" -> Connecting
      [] \/ s.kind = "Reconnecting" /\ e.kind = "Connected"
         \/ s.kind = "Connected" /\ e.kind = "Reconnecting" -> Reconnecting
      [] OTHER -> Disconnected

\* The arms of the match in update_overall_status, in the order of the source:
\* the first arm that matches decides.
OverallStatus(s, e) ==
    CASE s.kind = "Connected" /\ e.kind = "Connected" -> Connected
      [] s.kind = "Error" /\ e.kind = "Error" ->
            Error(<<"Both connections failed">> \o s.reason \o <<"|">> \o e.reason)
      [] s.kind = "Error" /\ e.kind # "Error" ->
            Error(<<"One connection failed">> \o s.reason)
      [] s.kind # "Error" /\ e.kind = "Error" ->
            Error(<<"One connection failed">> \o e.reason)
      [] \/ s.kind = "Connecting" /\ e.kind = "Connected"
         \/ s.kind = "Connected" /\ e.kind = "Connecting" -> Connecting
      [] \/ s.kind = "Reconnecting" /\ e.kind = "Connected"
         \/ s.kind = "Connected" /\ e.kind = "Reconnecting" -> Reconnecting
      [] \/ s.kind = "Disconnected" /\ e.kind = "Connected"
         \/ s.kind = "Connected" /\ e.kind = "Disconnected" -> Connected
      [] OTHER -> Disconnected

\* No aggregate computed yet.
NoStatus == [kind |-> "None", reason |-> <<>>]

CombInit ==
    /\ comb_in \in ChainStatuses \X ChainStatuses
    /\ comb_out = NoStatus

\* update_overall_status applied to the pair of per-chain statuses.
Combine ==
    /\ comb_out = NoStatus
    /\ comb_out' = OverallStatus(comb_in[1], comb_in[2])
    /\ UNCHANGED <<comb_in, combOthers>>

CombNext == Combine

----------------------------------------------------------------------------
(* ConnectionManager, HealthMonitor and the tasks that run their code *)

ConnectionTypes == {"Substrate", "EVM", "Both"}

\* ConnectionConfig: the fields the manager and the monitor read.  An endpoint
\* is present (TRUE) or None (FALSE).
ConnectionConfigs ==
    [connection_type : ConnectionTypes, substrate_endpoint : BOOLEAN,
     evm_endpoint : BOOLEAN, auto_reconnect : BOOLEAN]

Caller == 0
Loops == 1..MaxLoops
Tasks == {Caller} \cup Loops

NoAttempt == [substrate |-> "none", evm |-> "none"]
NoRead == [substrate |-> NoStatus, evm |-> NoStatus]
Healthy == [substrate_healthy |-> TRUE, evm_healthy |-> TRUE]
NoError == <<>>

\* ConnectionManager::new, HealthMonitor::new; no task is running any code.
ConnInit ==
    /\ config \in ConnectionConfigs
    /\ substrate_connection = "None"
    /\ evm_client = "None"
    /\ status = Disconnected
    /\ substrate_status = Disconnected
    /\ evm_status = Disconnected
    /\ running = FALSE
    /\ ever_stopped = FALSE
    /\ pc = [t \in Tasks |-> IF t = Caller THEN "idle" ELSE "none"]
    /\ ret = [t \in Tasks |-> <<>>]
    /\ attempt = [t \in Tasks |-> NoAttempt]
    /\ err = [t \in Tasks |-> NoError]
    /\ rd = [t \in Tasks |-> NoRead]
    /\ health = [t \in Tasks |-> Healthy]
    /\ op = [t \in Tasks |-> "none"]
    /\ result = [t \in Tasks |-> "none"]

(* The manager's code is translated statement by statement: a step takes the  *)
(* manager's shared fields `m` and the frame `k` of the task executing it     *)
(* (its position and locals) to the fields and frame after the statement.     *)
(* What the network answers is given by `env`.                                *)

\* The shared fields of the ConnectionManager (behind Arc<RwLock<..>>).
Manager ==
    [status |-> status, substrate_status |-> substrate_status,
     evm_status |-> evm_status, substrate_connection |-> substrate_connection,
     evm_client |-> evm_client]

\* The frame of task t.
Frame(t) ==
    [pc |-> pc[t], ret |-> ret[t], attempt |-> attempt[t], err |-> err[t],
     rd |-> rd[t], health |-> health[t], result |-> result[t]]

\* The answers of the network during one operation: whether each connection
\* attempt and each health probe succeeds, and the cause given for a failure.
Answers ==
    [connect_substrate : BOOLEAN, connect_evm : BOOLEAN,
     probe_substrate : BOOLEAN, probe_evm : BOOLEAN, cause : AttemptCauses]

St(m, k) == [m |-> m, k |-> k]

\* Return from the current function: continue at the position on top of the
\* frame's stack.
Return(k) == [k EXCEPT !.pc = Head(k.ret), !.ret = Tail(k.ret)]

\* matches!(connection_type, Substrate | Both) with an endpoint given
SubstrateConfigured ==
    config.connection_type \in {"Substrate", "Both"} /\ config.substrate_endpoint

\* matches!(connection_type, EVM | Both) with an endpoint given
EvmConfigured ==
    config.connection_type \in {"EVM", "Both"} /\ config.evm_endpoint

\* Variants of the two tests below: every failed Substrate attempt ends
\* initialize; no failed EVM attempt does.
SubstrateFailureAlwaysFatal == TRUE
EvmFailureNeverFatal == FALSE

\* matches!(connection_type, Substrate): a failed Substrate attempt ends initialize
SubstrateFailureFatal == config.connection_type = "Substrate"

\* matches!(connection_type, EVM): a failed EVM attempt ends initialize
EvmFailureFatal == config.connection_type = "EVM"

\* Where initialize continues after the Substrate block / at its EVM block.
EvmEntry == IF EvmConfigured THEN "init_evm_status" ELSE "upd_read_substrate"
SubstrateEntry == IF SubstrateConfigured THEN "init_substrate_status" ELSE EvmEntry

(* ---- ConnectionManager::initialize *)

\* line 91
InitStatus(m, k) ==
    St([m EXCEPT !.status = Connecting],
       [k EXCEPT !.pc = SubstrateEntry, !.attempt = NoAttempt, !.err = NoError])

\* line 96
InitSubstrateStatus(m, k) ==
    St([m EXCEPT !.substrate_status = Connecting],
       [k EXCEPT !.pc = "init_substrate_connect"])

\* lines 97-111: initialize_substrate; Ok stores the handle, Err records the
\* error in the chain's status and, for a Substrate-only manager, ends the call
InitSubstrateConnect(m, k, env) ==
    IF env.connect_substrate
    THEN St([m EXCEPT !.substrate_connection = "Some"],
            [k EXCEPT !.pc = "init_substrate_connected",
                      !.attempt.substrate = "ok"])
    ELSE St([m EXCEPT !.substrate_status = Error(SubstrateConnectError(env.cause))],
            [k EXCEPT !.pc = IF SubstrateFailureFatal THEN "init_fatal" ELSE EvmEntry,
                      !.attempt.substrate = "fail",
                      !.err = SubstrateConnectError(env.cause)])

\* line 100
InitSubstrateConnected(m, k) ==
    St([m EXCEPT !.substrate_status = Connected], [k EXCEPT !.pc = EvmEntry])

\* line 119
InitEvmStatus(m, k) ==
    St([m EXCEPT !.evm_status = Connecting], [k EXCEPT !.pc = "init_evm_connect"])

\* lines 120-135: initialize_evm, as for Substrate
InitEvmConnect(m, k, env) ==
    IF env.connect_evm
    THEN St([m EXCEPT !.evm_client = "Some"],
            [k EXCEPT !.pc = "init_evm_connected", !.attempt.evm = "ok"])
    ELSE St([m EXCEPT !.evm_status = Error(EvmConnectError(env.cause))],
            [k EXCEPT !.pc = IF EvmFailureFatal THEN "init_fatal"
                                                ELSE "upd_read_substrate",
                      !.attempt.evm = "fail",
                      !.err = EvmConnectError(env.cause)])

\* line 123
InitEvmConnected(m, k) ==
    St([m EXCEPT !.evm_status = Connected], [k EXCEPT !.pc = "upd_read_substrate"])

\* lines 108-109 and 131-132: the single required chain failed; return Err(e)
InitFatal(m, k) ==
    St([m EXCEPT !.status = Error(k.err)],
       Return([k EXCEPT !.err = NoError, !.result = "ConnectionError"]))

(* ---- ConnectionManager::update_overall_status (called at line 140) *)

\* line 290
UpdReadSubstrate(m, k) ==
    St(m, [k EXCEPT !.pc = "upd_read_evm", !.rd.substrate = m.substrate_status])

\* line 291
UpdReadEvm(m, k) ==
    St(m, [k EXCEPT !.pc = "upd_write", !.rd.evm = m.evm_status])

\* lines 293-311, then initialize returns Ok(()) (line 142)
UpdWrite(m, k) ==
    St([m EXCEPT !.status = OverallStatus(k.rd.substrate, k.rd.evm)],
       Return([k EXCEPT !.rd = NoRead, !.err = NoError, !.result = "Ok"]))

(* ---- ConnectionManager::disconnect *)

\* line 254
DiscStatus(m, k) ==
    St([m EXCEPT !.status = Disconnected],
       [k EXCEPT !.pc = "disc_substrate_connection"])

\* line 255
DiscSubstrateConnection(m, k) ==
    St([m EXCEPT !.substrate_connection = "None"], [k EXCEPT !.pc = "disc_evm_client"])

DiscEvmClientKept(m, k) == St(m, [k EXCEPT !.pc = "disc_substrate_status"])

\* line 256
DiscEvmClient(m, k) ==
    St([m EXCEPT !.evm_client = "None"], [k EXCEPT !.pc = "disc_substrate_status"])

\* line 257
DiscSubstrateStatus(m, k) ==
    St([m EXCEPT !.substrate_status = Disconnected],
       [k EXCEPT !.pc = "disc_evm_status"])

\* lines 258-259
DiscEvmStatus(m, k) ==
    St([m EXCEPT !.evm_status = Disconnected], Return([k EXCEPT !.result = "Ok"]))

(* ---- ConnectionManager::health_check *)

\* lines 189-213: the Substrate probe: chain_info() on the handle, if any
HealthSubstrate(m, k, env) ==
    St(m, [k EXCEPT !.pc = "hc_evm",
                    !.health =
                        [substrate_healthy |->
                            IF config.connection_type \in {"Substrate", "Both"}
                            THEN m.substrate_connection = "Some" /\ env.probe_substrate
                            ELSE TRUE,
                         evm_healthy |-> TRUE]])

\* lines 215-243: the EVM probe: get_chain_id() on the client, if any; the
\* HealthStatus is returned
HealthEvm(m, k, env) ==
    St(m, Return([k EXCEPT !.result = "Ok",
                           !.health.evm_healthy =
                               IF config.connection_type \in {"EVM", "Both"}
                               THEN m.evm_client = "Some" /\ env.probe_evm
                               ELSE TRUE]))

\* HealthStatus::overall_healthy (line 235)
OverallHealthy(h) == h.substrate_healthy /\ h.evm_healthy

\* The positions outside the manager's code: the caller between two calls, and
\* the positions of the monitor loop.
ControlLabels == {"idle", "none", "hm_check", "hm_probe", "hm_reconnect", "hm_sleep", "done"}

\* The statement at the frame's position.
StepOf(m, k, env) ==
    CASE k.pc = "init_status" -> InitStatus(m, k)
      [] k.pc = "init_substrate_status" -> InitSubstrateStatus(m, k)
      [] k.pc = "init_substrate_connect" -> InitSubstrateConnect(m, k, env)
      [] k.pc = "init_substrate_connected" -> InitSubstrateConnected(m, k)
      [] k.pc = "init_evm_status" -> InitEvmStatus(m, k)
      [] k.pc = "init_evm_connect" -> InitEvmConnect(m, k, env)
      [] k.pc = "init_evm_connected" -> InitEvmConnected(m, k)
      [] k.pc = "init_fatal" -> InitFatal(m, k)
      [] k.pc = "upd_read_substrate" -> UpdReadSubstrate(m, k)
      [] k.pc = "upd_read_evm" -> UpdReadEvm(m, k)
      [] k.pc = "upd_write" -> UpdWrite(m, k)
      [] k.pc = "disc_status" -> DiscStatus(m, k)
      [] k.pc = "disc_substrate_connection" -> DiscSubstrateConnection(m, k)
      [] k.pc = "disc_evm_client" -> DiscEvmClient(m, k)
      [] k.pc = "disc_substrate_status" -> DiscSubstrateStatus(m, k)
      [] k.pc = "disc_evm_status" -> DiscEvmStatus(m, k)
      [] k.pc = "hc_substrate" -> HealthSubstrate(m, k, env)
      [] k.pc = "hc_evm" -> HealthEvm(m, k, env)

\* The whole call: the statements from the frame's position until the task is
\* back outside the manager's code.
RECURSIVE Run(_, _, _)
Run(m, k, env) ==
    IF k.pc \in ControlLabels THEN St(m, k)
    ELSE LET s == StepOf(m, k, env) IN Run(s.m, s.k, env)

\* Enter a function at `first`, to continue at the positions `then` afterwards.
Enter(k, first, then) == [k EXCEPT !.pc = first, !.ret = then, !.result = "none"]

\* initialize()
Initialize(k, then) == Enter(k, "init_status", then)

\* disconnect()
Disconnect(k, then) == Enter(k, "disc_status", then)

\* reconnect() (lines 263-266): disconnect().await?, then initialize()
Reconnect(k, then) == Enter(k, "disc_status", <<"init_status">> \o then)

\* health_check()
HealthCheck(k, then) == Enter(k, "hc_substrate", then)

\* Task t has run a call to its end `s`: the manager's fields and t's frame
\* are those of s.
Apply(t, s) ==
    /\ status' = s.m.status
    /\ substrate_status' = s.m.substrate_status
    /\ evm_status' = s.m.evm_status
    /\ substrate_connection' = s.m.substrate_connection
    /\ evm_client' = s.m.evm_client
    /\ pc' = [pc EXCEPT ![t] = s.k.pc]
    /\ ret' = [ret EXCEPT ![t] = s.k.ret]
    /\ attempt' = [attempt EXCEPT ![t] = s.k.attempt]
    /\ err' = [err EXCEPT ![t] = s.k.err]
    /\ rd' = [rd EXCEPT ![t] = s.k.rd]
    /\ health' = [health EXCEPT ![t] = s.k.health]
    /\ result' = [result EXCEPT ![t] = s.k.result]

(* ---- the caller: one sequential user of the manager and the monitor *)

CallInitialize ==
    /\ pc[Caller] = "idle"
    /\ \E env \in Answers :
          Apply(Caller, Run(Manager, Initialize(Frame(Caller), <<"idle">>), env))
    /\ op' = [op EXCEPT ![Caller] = "initialize"]
    /\ UNCHANGED <<connOthers, config, monitorVars>>

CallDisconnect ==
    /\ pc[Caller] = "idle"
    /\ \E env \in Answers :
          Apply(Caller, Run(Manager, Disconnect(Frame(Caller), <<"idle">>), env))
    /\ op' = [op EXCEPT ![Caller] = "disconnect"]
    /\ UNCHANGED <<connOthers, config, monitorVars>>

CallReconnect ==
    /\ pc[Caller] = "idle"
    /\ \E env \in Answers :
          Apply(Caller, Run(Manager, Reconnect(Frame(Caller), <<"idle">>), env))
    /\ op' = [op EXCEPT ![Caller] = "reconnect"]
    /\ UNCHANGED <<connOthers, config, monitorVars>>

CallHealthCheck ==
    /\ pc[Caller] = "idle"
    /\ \E env \in Answers :
          Apply(Caller, Run(Manager, HealthCheck(Frame(Caller), <<"idle">>), env))
    /\ op' = [op EXCEPT ![Caller] = "health_check"]
    /\ UNCHANGED <<connOthers, config, monitorVars>>

(* ---- HealthMonitor *)

\* The tasks running a monitor loop, and the slots free for a new one.
ActiveLoops == {l \in Loops : pc[l] \notin {"none", "done"}}
FreeLoops == Loops \ ActiveLoops

\* start() without its test of the flag.
StartNeverRefused == FALSE

\* if *running { return Err(AlreadyRunning) } (lines 352-354)
StartRefused == running

\* HealthMonitor::start, atomic: it holds the flag's write lock throughout.
\* tokio::spawn starts the loop in the lowest free slot.
MonitorStart ==
    /\ pc[Caller] = "idle"
    /\ op' = [op EXCEPT ![Caller] = "start"]
    /\ IF StartRefused
       THEN /\ result' = [result EXCEPT ![Caller] = "AlreadyRunning"]
            /\ UNCHANGED <<running, pc>>
       ELSE /\ FreeLoops # {}
            /\ LET l == CHOOSE x \in FreeLoops : \A y \in FreeLoops : x <= y
               IN  pc' = [pc EXCEPT ![l] = "hm_check"]
            /\ running' = TRUE
            /\ result' = [result EXCEPT ![Caller] = "Ok"]
    /\ UNCHANGED <<connOthers, config, managerVars, ever_stopped, ret, attempt,
                   err, rd, health>>

\* HealthMonitor::stop (lines 388-390)
MonitorStop ==
    /\ pc[Caller] = "idle"
    /\ running' = FALSE
    /\ ever_stopped' = TRUE
    /\ op' = [op EXCEPT ![Caller] = "stop"]
    /\ result' = [result EXCEPT ![Caller] = "Ok"]
    /\ UNCHANGED <<connOthers, config, managerVars, pc, ret, attempt, err, rd,
                   health>>

\* A loop that does not look at the flag (`loop { .. }`).
ObservedAlwaysRunning == TRUE

\* What the loop's `while *running_flag.read().await` reads (line 362).
ObservedRunning == running

\* line 362: the loop observes the flag: it goes on to a health check, or ends
LoopCheck(l) ==
    /\ pc[l] = "hm_check"
    /\ pc' = [pc EXCEPT ![l] = IF ObservedRunning THEN "hm_probe" ELSE "done"]
    /\ UNCHANGED <<connOthers, config, managerVars, monitorVars, ret, attempt,
                   err, rd, health, op, result>>

\* A loop that reconnects whatever auto_reconnect says.
ReconnectAlwaysWanted(h) == ~OverallHealthy(h)

\* !health.overall_healthy && config.auto_reconnect (lines 364-368)
ReconnectWanted(h) == ~OverallHealthy(h) /\ config.auto_reconnect

\* Where the loop continues with the HealthStatus h (lines 363-378).
AfterHealthCheck(h) == IF ReconnectWanted(h) THEN "hm_reconnect" ELSE "hm_sleep"

\* line 363: health_check(), which always returns Ok(health)
LoopHealthCheck(l) ==
    /\ pc[l] = "hm_probe"
    /\ \E env \in Answers :
          LET s == Run(Manager, HealthCheck(Frame(l), <<"hm_probe">>), env)
          IN  Apply(l, St(s.m, [s.k EXCEPT !.pc = AfterHealthCheck(s.k.health)]))
    /\ UNCHANGED <<connOthers, config, monitorVars, op>>

\* line 370: reconnect(); its error is logged and dropped
LoopReconnect(l) ==
    /\ pc[l] = "hm_reconnect"
    /\ \E env \in Answers :
          Apply(l, Run(Manager, Reconnect(Frame(l), <<"hm_sleep">>), env))
    /\ UNCHANGED <<connOthers, config, monitorVars, op>>

\* line 380: the interval has passed; the locals of the iteration are dropped
LoopSleep(l) ==
    /\ pc[l] = "hm_sleep"
    /\ pc' = [pc EXCEPT ![l] = "hm_check"]
    /\ attempt' = [attempt EXCEPT ![l] = NoAttempt]
    /\ health' = [health EXCEPT ![l] = Healthy]
    /\ result' = [result EXCEPT ![l] = "none"]
    /\ UNCHANGED <<connOthers, config, managerVars, monitorVars, ret, err, rd, op>>

(* ---- concurrent callers: the statements of their calls interleave *)

\* Task t enters its one call of the manager: the caller disconnect(), a
\* monitor loop initialize() or reconnect().
BeginCall(t, call) ==
    /\ t <= MaxRacers
    /\ pc[t] \in {"idle", "none"}
    /\ op[t] = "none"
    /\ call \in (IF t = Caller THEN {"disconnect"} ELSE {"initialize", "reconnect"})
    /\ Apply(t, St(Manager,
                   CASE call = "disconnect" -> Disconnect(Frame(t), <<"idle">>)
                     [] call = "initialize" -> Initialize(Frame(t), <<"idle">>)
                     [] call = "reconnect" -> Reconnect(Frame(t), <<"idle">>)))
    /\ op' = [op EXCEPT ![t] = call]
    /\ UNCHANGED <<connOthers, config, monitorVars>>

\* Task t executes the statement it is at; each statement takes and releases
\* the lock of the one field it assigns.
StepCall(t) ==
    /\ pc[t] \notin ControlLabels
    /\ \E env \in Answers : Apply(t, StepOf(Manager, Frame(t), env))
    /\ UNCHANGED <<connOthers, config, monitorVars, op>>

RaceNext ==
    \/ \E t \in Tasks, call \in {"disconnect", "initialize", "reconnect"} :
          BeginCall(t, call)
    \/ \E t \in Tasks : StepCall(t)

ManagerNext ==
    \/ CallInitialize
    \/ CallDisconnect
    \/ CallReconnect
    \/ CallHealthCheck

MonitorNext ==
    \/ MonitorStart
    \/ MonitorStop
    \/ \E l \in Loops : LoopCheck(l)
    \/ \E l \in Loops : LoopHealthCheck(l)
    \/ \E l \in Loops : LoopReconnect(l)
    \/ \E l \in Loops : LoopSleep(l)

\* The configurations a monitor can repair: auto_reconnect set and an endpoint
\* given for every chain of the connection type.
RecoverConfigs ==
    {c \in ConnectionConfigs :
        /\ c.auto_reconnect
        /\ c.connection_type \in {"Substrate", "Both"} => c.substrate_endpoint
        /\ c.connection_type \in {"EVM", "Both"} => c.evm_endpoint}

\* The network as long as nothing is known about it.
Unsettled == settled = FALSE

\* With the monitor running, the network settles: from here on it answers
\* every connection attempt and every probe, and the caller makes no call.
Settle ==
    /\ running
    /\ ~settled
    /\ settled' = TRUE
    /\ UNCHANGED envOthers

\* The health check of loop l found every handle it probed alive.
ProbesSucceeded(l) ==
    /\ health'[l].substrate_healthy =
          (config.connection_type \in {"Substrate", "Both"}
              => substrate_connection = "Some")
    /\ health'[l].evm_healthy =
          (config.connection_type \in {"EVM", "Both"} => evm_client = "Some")

\* No connection attempt of loop l's reconnect() failed.
AttemptsSucceeded(l) == attempt'[l].substrate # "fail" /\ attempt'[l].evm # "fail"

\* A step of monitor loop l on a network that may have settled.
RecoverLoopStep(l) ==
    \/ LoopCheck(l)
    \/ LoopHealthCheck(l) /\ (settled => ProbesSucceeded(l))
    \/ LoopReconnect(l) /\ (settled => AttemptsSucceeded(l))
    \/ LoopSleep(l)

\* The caller initializes the manager and starts the monitor; the loops run.
RecoverNext ==
    \/ ~settled /\ CallInitialize
    \/ ~settled /\ MonitorStart
    \/ Settle
    \/ \E l \in Loops : RecoverLoopStep(l)

\* tokio schedules every spawned loop: a loop that can observe the flag or
\* whose interval has passed does so, and its calls of health_check() and
\* reconnect(), which are loop-free, return.
MonitorFairness ==
    \A l \in Loops :
        /\ WF_vars(LoopCheck(l))
        /\ WF_vars(LoopSleep(l))
        /\ []<>(pc[l] # "hm_probe")
        /\ []<>(pc[l] # "hm_reconnect")

----------------------------------------------------------------------------
(* EventListener: start, stop and the polling loops it spawns *)

Pollers == 1..MaxPollers
Heads == 0..MaxHead

\* EventListenerConfig.from_block: Some(BlockNumber::Number(n)), or anything
\* else ("Latest": Some(BlockNumber::Latest), the default, or None).
Latest == [kind |-> "Latest", n |-> 0]
Number(n) == [kind |-> "Number", n |-> n]
FromBlocks == {Latest, Number(1)}
ListenerConfigs == [from_block : FromBlocks]
DefaultListenerConfig == [from_block |-> Latest]

\* The logs of the chain: one log in every block, its first topic alternating.
Signatures == {"sigA", "sigB"}
SignatureOf(b) == IF b % 2 = 1 THEN "sigA" ELSE "sigB"

\* process_log_sync: the record made of the log of block b.
ProcessLog(b) == [block_number |-> b, signature |-> SignatureOf(b)]

\* get_logs with the filter's range from..to (both inclusive), processed.
RECURSIVE GetLogs(_, _)
GetLogs(from, to) ==
    IF from > to THEN <<>> ELSE <<ProcessLog(from)>> \o GetLogs(from + 1, to)

\* The handlers: the k-th call of register_handler registers handler k.
HandlerIds == 1..MaxHandlers

NoQuery == <<>>

\* EventListener::new; no loop has been spawned.
ListenerInit ==
    /\ el_config \in ListenerConfigs
    /\ event_handlers = [sig \in Signatures |-> <<>>]
    /\ el_running = FALSE
    /\ head = 0
    /\ el_pc = [l \in Pollers |-> "none"]
    /\ last_block = [l \in Pollers |-> 0]
    /\ last_query = [l \in Pollers |-> NoQuery]
    /\ rx_alive = [l \in Pollers |-> FALSE]
    /\ channel = [l \in Pollers |-> <<>>]
    /\ handled = [l \in Pollers |-> <<>>]
    /\ el_op = "none"
    /\ el_result = "none"

ActivePollers == {l \in Pollers : el_pc[l] \in {"cursor", "loop"}}
FreePollers == Pollers \ ActivePollers

\* start() without its test of the flag.
ListenerStartNeverRefused == FALSE

\* if *running { return Err(AlreadyRunning) } (lines 130-132)
ListenerStartRefused == el_running

\* EventListener::start: the flag is set, a channel is made and the loop is
\* spawned with its sender; the receiver is returned as the EventStream.
ListenerStart ==
    /\ el_op' = "start"
    /\ IF ListenerStartRefused
       THEN /\ el_result' = "AlreadyRunning"
            /\ UNCHANGED <<el_running, el_pc, last_block, last_query, rx_alive,
                           channel, handled>>
       ELSE /\ FreePollers # {}
            /\ LET l == CHOOSE x \in FreePollers : \A y \in FreePollers : x <= y
               IN  /\ el_pc' = [el_pc EXCEPT ![l] = "cursor"]
                   /\ last_block' = [last_block EXCEPT ![l] = 0]
                   /\ last_query' = [last_query EXCEPT ![l] = NoQuery]
                   /\ rx_alive' = [rx_alive EXCEPT ![l] = TRUE]
                   /\ channel' = [channel EXCEPT ![l] = <<>>]
                   /\ handled' = [handled EXCEPT ![l] = <<>>]
            /\ el_running' = TRUE
            /\ el_result' = "Ok"
    /\ UNCHANGED <<listenerOthers, el_config, event_handlers, head>>

\* EventListener::stop (lines 157-160): the flag is cleared, nothing else
ListenerStop ==
    /\ el_running' = FALSE
    /\ el_op' = "stop"
    /\ el_result' = "Ok"
    /\ UNCHANGED <<listenerOthers, el_config, event_handlers, head, el_pc, last_block,
                   last_query, rx_alive, channel, handled>>

\* The caller drops the EventStream start() returned while loop l runs: its
\* channel has no receiver any more.
DropStream(l) ==
    /\ l \in ActivePollers
    /\ rx_alive[l]
    /\ rx_alive' = [rx_alive EXCEPT ![l] = FALSE]
    /\ UNCHANGED <<listenerOthers, el_config, event_handlers, el_running, head, el_pc,
                   last_block, last_query, channel, handled, el_op, el_result>>

\* The chain produces a block.
AdvanceHead ==
    /\ head < MaxHead
    /\ head' = head + 1
    /\ UNCHANGED <<listenerOthers, el_config, event_handlers, el_running, el_pc, last_block,
                   last_query, rx_alive, channel, handled, el_op, el_result>>

\* lines 246-249: the starting cursor: n of from_block = Number(n), else the
\* head the node reports; a failed head query ends the loop with its error
PollerCursor(l) ==
    /\ el_pc[l] = "cursor"
    /\ IF el_config.from_block.kind = "Number"
       THEN /\ last_block' = [last_block EXCEPT ![l] = el_config.from_block.n]
            /\ el_pc' = [el_pc EXCEPT ![l] = "loop"]
       ELSE \E head_ok \in BOOLEAN :
               IF head_ok
               THEN /\ last_block' = [last_block EXCEPT ![l] = head]
                    /\ el_pc' = [el_pc EXCEPT ![l] = "loop"]
               ELSE /\ el_pc' = [el_pc EXCEPT ![l] = "failed"]
                    /\ UNCHANGED last_block
    /\ UNCHANGED <<listenerOthers, el_config, event_handlers, el_running, head, last_query,
                   rx_alive, channel, handled, el_op, el_result>>

\* lines 280-294: each record goes to the handlers registered under its
\* signature, then onto the channel; a send with the receiver gone ends the
\* loop with Ok(())
\* The number of register_handler calls made so far.
RECURSIVE Registered(_)
Registered(sigs) ==
    IF sigs = {} THEN 0
    ELSE LET sig == CHOOSE x \in sigs : TRUE
         IN  Len(event_handlers[sig]) + Registered(sigs \ {sig})

\* EventListener::register_handler (lines 118-125):
\* handlers.entry(event_signature).or_insert_with(Vec::new).push(handler)
RegisterHandler(sig) ==
    /\ Registered(Signatures) < MaxHandlers
    /\ event_handlers' =
          [event_handlers EXCEPT ![sig] = Append(@, Registered(Signatures) + 1)]
    /\ UNCHANGED <<listenerOthers, el_config, el_running, head, el_pc,
                   last_block, last_query, rx_alive, channel, handled, el_op,
                   el_result>>

\* The handlers of a record invoked last-registered first.
InvokeHandlersReversed(hs, event, sent) ==
    [i \in 1..Len(hs) |->
        [handler |-> hs[Len(hs) + 1 - i], event |-> event, sent |-> sent]]

\* lines 284-286: for handler in event_handlers { handler.handle_event(..) }:
\* the invocations, in the order of the Vec `hs`, made when `sent` records
\* have been sent on the channel.
InvokeHandlers(hs, event, sent) ==
    [i \in 1..Len(hs) |-> [handler |-> hs[i], event |-> event, sent |-> sent]]

RECURSIVE Deliver(_, _, _, _)
Deliver(logs, open, ch, hd) ==
    IF logs = <<>>
    THEN [closed |-> FALSE, channel |-> ch, handled |-> hd]
    ELSE LET event == Head(logs)
             hd2 == hd \o InvokeHandlers(event_handlers[event.signature],
                                         event, Len(ch))
         IN  IF open
             THEN Deliver(Tail(logs), open, Append(ch, event), hd2)
             ELSE [closed |-> TRUE, channel |-> ch, handled |-> hd2]

\* A test that also passes when the head equals the cursor.
HeadNotBehind(last, h) == h >= last

\* line 258: if current_block > last_block
HeadAdvanced(last, h) == h > last

\* The range of a query that starts at the cursor itself.
QueryRangeFromCursor(last, h) == <<last, h>>

\* lines 272-274: from_block(Number(last_block + 1)), to_block(Number(current_block))
QueryRange(last, h) == <<last + 1, h>>

\* An iteration that gives up on a failed query and lets the loop go on.
QueryFailureSkipped(same, q) == [same EXCEPT !.query = q]

\* `?` on a failed get_block_number (line 256) or get_logs (line 276): the
\* error leaves event_processing_loop at once; q is the query made last.
QueryFailed(same, q) == [same EXCEPT !.pc = "failed", !.query = q]

\* One iteration of the loop (lines 251-302) for a loop with cursor `last`
\* whose latest query was q, the node reporting the head h and answering as
\* `env` says.  The body of `loop { .. }` is entered unconditionally: the
\* running flag is not among the loop's arguments (lines 240-245, 251-253).
Iteration(last, q, open, ch, hd, h, env) ==
    LET same == [pc |-> "loop", last_block |-> last, query |-> q,
                 channel |-> ch, handled |-> hd]
    IN  IF ~env.head_ok THEN QueryFailed(same, q)
        ELSE IF HeadAdvanced(last, h)
        THEN IF ~env.logs_ok
             THEN QueryFailed(same, QueryRange(last, h))
             ELSE LET range == QueryRange(last, h)
                      d == Deliver(GetLogs(range[1], range[2]), open, ch, hd)
                  IN  [pc |-> IF d.closed THEN "done" ELSE "loop",
                       last_block |-> IF d.closed THEN last ELSE h,
                       query |-> range,
                       channel |-> d.channel, handled |-> d.handled]
        ELSE same

\* The node's answers during one iteration: whether get_block_number and
\* get_logs succeed (after a failed head query no log query is made).
NodeAnswers == {a \in [head_ok : BOOLEAN, logs_ok : BOOLEAN] : a.head_ok \/ a.logs_ok}

\* The loop runs one iteration and sleeps poll_interval (line 301).
PollerTick(l) ==
    /\ el_pc[l] = "loop"
    /\ \E env \in NodeAnswers :
          LET r == Iteration(last_block[l], last_query[l], rx_alive[l],
                             channel[l], handled[l], head, env)
          IN  /\ el_pc' = [el_pc EXCEPT ![l] = r.pc]
              /\ last_block' = [last_block EXCEPT ![l] = r.last_block]
              /\ last_query' = [last_query EXCEPT ![l] = r.query]
              /\ channel' = [channel EXCEPT ![l] = r.channel]
              /\ handled' = [handled EXCEPT ![l] = r.handled]
    /\ UNCHANGED <<listenerOthers, el_config, event_handlers, el_running, head, rx_alive,
                   el_op, el_result>>

\* The sender `tx` is owned by the spawned task (lines 142-151): it is dropped
\* when event_processing_loop returns.
SenderAlive(l) == l \in ActivePollers

\* EventStream::next for a reader that has taken the first k records of loop
\* l's channel: the next record, or None (end of stream) once every sender
\* is gone, or no answer yet.
StreamNext(l, k) ==
    IF k < Len(channel[l]) THEN [kind |-> "Some", at |-> k + 1]
    ELSE IF SenderAlive(l) THEN [kind |-> "Pending", at |-> 0]
    ELSE [kind |-> "None", at |-> 0]

ListenerNext ==
    \/ ListenerStart
    \/ ListenerStop
    \/ AdvanceHead
    \/ \E l \in Pollers : DropStream(l)
    \/ \E l \in Pollers : PollerCursor(l)
    \/ \E l \in Pollers : PollerTick(l)

\* A listener that is started and not stopped: its polling loop at work, and
\* handlers being registered before or while it runs.
PollingNext ==
    \/ ListenerStart
    \/ \E sig \in Signatures : RegisterHandler(sig)
    \/ AdvanceHead
    \/ \E l \in Pollers : DropStream(l)
    \/ \E l \in Pollers : PollerCursor(l)
    \/ \E l \in Pollers : PollerTick(l)

----------------------------------------------------------------------------
(***************************************************************************)
(* Unified addresses (rust/src/unified/account.rs).  An address is a       *)
(* sequence of bytes; a UnifiedAddress is a variant tag with its bytes.    *)
(***************************************************************************)
AddressLen == 20
AccountIdLen == 32
EthereumPrefix == 109
H160Offset == 12
DigestOffset == 12

\* Sample values of the 20-byte types Address and H160.
Address == {[i \in 1..AddressLen |-> (16 * k + i) % 256] : k \in 0..MaxAddr}

\* Sample values of AccountId32: prefixed with 0x6d and followed by zero or
\* by non-zero bytes, left-padded with zeros, and native public keys.
AccountId32 ==
    {[i \in 1..AccountIdLen |->
         IF i = 1 THEN EthereumPrefix
         ELSE IF i <= AddressLen + 1 THEN a[i - 1] ELSE pad] :
       a \in Address, pad \in {0, 1}}
    \cup {[i \in 1..AccountIdLen |->
             IF i <= AccountIdLen - AddressLen THEN 0
             ELSE a[i - (AccountIdLen - AddressLen)]] : a \in Address}
    \cup {[i \in 1..AccountIdLen |-> (16 * k + 32 + i) % 256] : k \in 0..MaxAddr}

UnifiedAddress ==
    [tag : {"Substrate"}, bytes : AccountId32]
    \cup [tag : {"EVM", "H160"}, bytes : Address]

ConvertSubstrateToEvmLastBytes(substrate_address) ==
    SubSeq(substrate_address, AccountIdLen - AddressLen + 1, AccountIdLen)

ConvertEvmToSubstratePadded(evm_address) ==
    [i \in 1..AccountIdLen |->
        IF i <= AccountIdLen - AddressLen THEN 0
        ELSE evm_address[i - (AccountIdLen - AddressLen)]]

\* convert_evm_to_substrate: account_id[0] = 0x6d, account_id[1..21] = the
\* address, the rest of [0u8; 32] stays zero.
ConvertEvmToSubstrate(evm_address) ==
    [i \in 1..AccountIdLen |->
        IF i = 1 THEN EthereumPrefix
        ELSE IF i <= AddressLen + 1 THEN evm_address[i - 1]
        ELSE 0]

\* convert_substrate_to_evm: bytes [1..21] of a 0x6d-prefixed account id,
\* else bytes [12..32] of the Keccak-256 digest of the 32 bytes.
ConvertSubstrateToEvm(substrate_address) ==
    IF substrate_address[1] = EthereumPrefix
    THEN SubSeq(substrate_address, 2, AddressLen + 1)
    ELSE SubSeq(keccak256[substrate_address], DigestOffset + 1, AccountIdLen)

\* UnifiedAddress::to_substrate, the AccountId32 inside Some(..)
ToSubstrate(self) ==
    CASE self.tag = "Substrate" -> self.bytes
      [] self.tag = "EVM" -> ConvertEvmToSubstrate(self.bytes)
      [] self.tag = "H160" ->
            [i \in 1..AccountIdLen |->
                IF i <= H160Offset THEN 0 ELSE self.bytes[i - H160Offset]]

\* UnifiedAddress::to_evm, the Address inside Some(..)
ToEvm(self) ==
    CASE self.tag = "EVM" -> self.bytes
      [] self.tag = "Substrate" -> ConvertSubstrateToEvm(self.bytes)
      [] self.tag = "H160" -> self.bytes

\* address_utils::are_same_entity
AreSameEntity(addr1, addr2) ==
    CASE addr1.tag = "Substrate" /\ addr2.tag = "EVM" ->
            ConvertSubstrateToEvm(addr1.bytes) = addr2.bytes
      [] addr1.tag = "EVM" /\ addr2.tag = "Substrate" ->
            ConvertEvmToSubstrate(addr1.bytes) = addr2.bytes
      [] OTHER -> addr1 = addr2

\* One address is drawn; Keccak-256 is a fixed function, any one from the
\* account ids it is applied to (those not prefixed with 0x6d) to digests.
AddressInit ==
    /\ keccak256 \in
          [{s \in AccountId32 : s[1] # EthereumPrefix} ->
             {[i \in 1..AccountIdLen |->
                  IF i <= DigestOffset THEN 255 ELSE a[i - DigestOffset]] :
                a \in Address}]
    /\ ua_trace \in {<<a>> : a \in UnifiedAddress}
    /\ ua_calls = <<>>
    /\ ua_same = <<>>

\* address.to_substrate(), its result wrapped as UnifiedAddress::Substrate
CallToSubstrate ==
    /\ Len(ua_calls) < MaxConversions
    /\ ua_same = <<>>
    /\ ua_trace' = Append(ua_trace,
          [tag |-> "Substrate", bytes |-> ToSubstrate(ua_trace[Len(ua_trace)])])
    /\ ua_calls' = Append(ua_calls, "to_substrate")
    /\ UNCHANGED <<addressOthers, keccak256, ua_same>>

\* address.to_evm(), its result wrapped as UnifiedAddress::EVM
CallToEvm ==
    /\ Len(ua_calls) < MaxConversions
    /\ ua_same = <<>>
    /\ ua_trace' = Append(ua_trace,
          [tag |-> "EVM", bytes |-> ToEvm(ua_trace[Len(ua_trace)])])
    /\ ua_calls' = Append(ua_calls, "to_evm")
    /\ UNCHANGED <<addressOthers, keccak256, ua_same>>

\* are_same_entity(&address, &other)
CallAreSameEntity(other) ==
    /\ ua_calls = <<>>
    /\ ua_same = <<>>
    /\ ua_same' = <<other, AreSameEntity(ua_trace[1], other)>>
    /\ UNCHANGED <<addressOthers, keccak256, ua_trace, ua_calls>>

AddressNext ==
    \/ CallToSubstrate
    \/ CallToEvm
    \/ \E other \in UnifiedAddress : CallAreSameEntity(other)

----------------------------------------------------------------------------
(***************************************************************************)
(* BalanceCache (old/rust/src/unified/balance.rs).  The clock is the       *)
(* system clock, which may be set back.  Timestamps are unsigned; the      *)
(* width of the unsigned type is scaled to the clock readings 0..MaxClock. *)
(***************************************************************************)
NoBalance == [kind |-> "None"]
Panic == [kind |-> "Panic"]
Unit == [kind |-> "Unit"]

GetFreshInclusive(cached) ==
    (now - cached.timestamp) % (MaxClock + 1) <= ttl_seconds

RetainedYounger(cached) ==
    ((now - cached.timestamp) % (MaxClock + 1)) + 1 < ttl_seconds

\* BalanceCache::new(ttl_seconds), at any clock reading, in either build
BalanceInit ==
    /\ bc_cache = EmptyMap
    /\ ttl_seconds \in 1..MaxTtl
    /\ now \in 0..MaxClock
    /\ overflow_checks \in BOOLEAN
    /\ bc_ret = [op |-> "new", key |-> 0, value |-> Unit]

\* `now - cached.timestamp` panics: the difference is negative and the
\* build checks overflow.
Underflows(cached) == overflow_checks /\ now < cached.timestamp

\* get: `now - cached.timestamp < self.ttl_seconds`, the difference wrapped
GetFresh(cached) ==
    (now - cached.timestamp) % (MaxClock + 1) < ttl_seconds

\* BalanceCache::get
Get(key) ==
    IF key \notin DOMAIN bc_cache THEN NoBalance
    ELSE IF Underflows(bc_cache[key]) THEN Panic
    ELSE IF GetFresh(bc_cache[key])
         THEN [kind |-> "Some", cached |-> bc_cache[key]]
         ELSE NoBalance

\* clear_expired: the closure given to retain
Retained(cached) ==
    (now - cached.timestamp) % (MaxClock + 1) < ttl_seconds

\* A call that panicked ends the thread that owns the cache.
Usable == bc_ret.value # Panic

GetCall(key) ==
    /\ Usable
    /\ bc_ret' = [op |-> "get", key |-> key, value |-> Get(key)]
    /\ UNCHANGED <<balanceOthers, bc_cache, ttl_seconds, now, overflow_checks>>

\* BalanceCache::set
Set(key, balance) ==
    /\ Usable
    /\ bc_cache' = MapInsert(bc_cache, key, [balance |-> balance, timestamp |-> now])
    /\ bc_ret' = [op |-> "set", key |-> key, value |-> Unit]
    /\ UNCHANGED <<balanceOthers, ttl_seconds, now, overflow_checks>>

\* BalanceCache::clear_expired.  retain visits the entries in the map's
\* order; a panic of the closure leaves the entries visited before it
\* already removed.
ClearExpired ==
    /\ Usable
    /\ LET failing == {k \in DOMAIN bc_cache : Underflows(bc_cache[k])}
           expired == {k \in DOMAIN bc_cache \ failing : ~Retained(bc_cache[k])}
       IN  IF failing = {}
           THEN /\ bc_cache' = Restrict(bc_cache, DOMAIN bc_cache \ expired)
                /\ bc_ret' = [op |-> "clear_expired", key |-> 0, value |-> Unit]
           ELSE /\ \E visited \in SUBSET expired :
                      bc_cache' = Restrict(bc_cache, DOMAIN bc_cache \ visited)
                /\ bc_ret' = [op |-> "clear_expired", key |-> 0, value |-> Panic]
    /\ UNCHANGED <<balanceOthers, ttl_seconds, now, overflow_checks>>

\* SystemTime::now() reads another value than before, later or earlier.
ClockChange(t) ==
    /\ Usable
    /\ t # now
    /\ now' = t
    /\ bc_ret' = [op |-> "clock", key |-> 0, value |-> Unit]
    /\ UNCHANGED <<balanceOthers, bc_cache, ttl_seconds, overflow_checks>>

BalanceNext ==
    \/ \E key \in 1..MaxKeys : GetCall(key)
    \/ \E key \in 1..MaxKeys, balance \in {"b1", "b2"} : Set(key, balance)
    \/ ClearExpired
    \/ \E t \in 0..MaxClock : ClockChange(t)

----------------------------------------------------------------------------
(***************************************************************************)
(* The locks of the EventCache (evm/events.rs:512-609).  Each call of the  *)
(* cache takes tokio RwLock guards in the order of its statements; what    *)
(* it does to the maps under them is the subject of SpecCache.             *)
(***************************************************************************)
CacheCalls ==
    {"add_event", "get_events_by_block", "get_events_by_address",
     "get_events_in_range", "clear_before"}

Take(lock, mode) == [lock |-> lock, mode |-> mode]
Drop == [lock |-> "all", mode |-> "drop"]

\* The guards a call takes and the points where it drops what it holds.
LockPlan(call) ==
    CASE call = "add_event" ->
            <<Take("events", "write"), Drop, Take("by_block", "write"), Drop,
              Take("by_address", "write"), Drop>>
      [] call = "get_events_by_block" ->
            <<Take("by_block", "read"), Take("events", "read"), Drop>>
      [] call = "get_events_by_address" ->
            <<Take("by_address", "read"), Take("events", "read"), Drop>>
      [] call = "get_events_in_range" -> <<Take("events", "read"), Drop>>
      [] call = "clear_before" ->
            <<Take("events", "write"), Take("by_block", "write"),
              Take("by_address", "write"), Drop>>

\* Call u holds a guard that keeps call t from the guard <<lock, mode>>: a
\* write guard excludes every other guard, a read guard a write guard.
Excludes(u, lock, mode) ==
    \E g \in lk_held[u] : g[1] = lock /\ (mode = "write" \/ g[2] = "write")

LockInit ==
    /\ lk_pos = [t \in CacheCalls |-> 0]
    /\ lk_held = [t \in CacheCalls |-> {}]

\* A task enters the call.
LockEnter(t) ==
    /\ lk_pos[t] = 0
    /\ lk_pos' = [lk_pos EXCEPT ![t] = 1]
    /\ UNCHANGED <<lockOthers, lk_held>>

\* `.read().await` / `.write().await` returns its guard.
LockTake(t) ==
    /\ lk_pos[t] > 0
    /\ LET step == LockPlan(t)[lk_pos[t]]
       IN  /\ step.mode # "drop"
           /\ \A u \in CacheCalls : ~Excludes(u, step.lock, step.mode)
           /\ lk_held' = [lk_held EXCEPT ![t] = @ \cup {<<step.lock, step.mode>>}]
    /\ lk_pos' = [lk_pos EXCEPT ![t] = @ + 1]
    /\ UNCHANGED lockOthers

\* The guards held go out of scope: at the end of the statement for a
\* temporary, at the end of the function for a local.
LockDrop(t) ==
    /\ lk_pos[t] > 0
    /\ LockPlan(t)[lk_pos[t]].mode = "drop"
    /\ lk_held' = [lk_held EXCEPT ![t] = {}]
    /\ lk_pos' = [lk_pos EXCEPT ![t] = IF @ = Len(LockPlan(t)) THEN 0 ELSE @ + 1]
    /\ UNCHANGED lockOthers

LockNext ==
    \/ \E t \in CacheCalls : LockEnter(t)
    \/ \E t \in CacheCalls : LockTake(t)
    \/ \E t \in CacheCalls : LockDrop(t)

----------------------------------------------------------------------------
(***************************************************************************)
(* ConnectionPool (connection/mod.rs:399-446).  A pooled manager is        *)
(* represented by the kind of its aggregate status.                        *)
(***************************************************************************)
PoolCalls == {"add_connection", "clear"}

\* ConnectionPool::new
PoolInit ==
    /\ connections = <<>>
    /\ pool_pc = [t \in PoolCalls |-> "idle"]
    /\ pool_held = [t \in PoolCalls |-> {}]
    /\ pool_i = 0

\* A task enters add_connection (line 414) or clear (line 438).
PoolEnter(t) ==
    /\ pool_pc[t] = "idle"
    /\ t = "add_connection" => Len(connections) < MaxPool
    /\ pool_pc' = [pool_pc EXCEPT ![t] = IF t = "clear" THEN "read" ELSE "initialize"]
    /\ UNCHANGED <<poolOthers, connections, pool_held, pool_i>>

\* line 416: manager.initialize().await?
AddInitialize(ok) ==
    /\ pool_pc["add_connection"] = "initialize"
    /\ pool_pc' = [pool_pc EXCEPT !["add_connection"] = IF ok THEN "write" ELSE "idle"]
    /\ UNCHANGED <<poolOthers, connections, pool_held, pool_i>>

\* line 439: `let connections = self.connections.read().await`, a guard
\* that lives to the end of clear
ClearRead ==
    /\ pool_pc["clear"] = "read"
    /\ \A u \in PoolCalls : "write" \notin pool_held[u]
    /\ pool_held' = [pool_held EXCEPT !["clear"] = {"read"}]
    /\ pool_i' = 1
    /\ pool_pc' = [pool_pc EXCEPT !["clear"] = "iterate"]
    /\ UNCHANGED <<poolOthers, connections>>

\* lines 440-442: disconnect() on the next manager (it returns Ok), or the
\* end of the iteration
ClearIterate ==
    /\ pool_pc["clear"] = "iterate"
    /\ IF pool_i <= Len(connections)
       THEN /\ connections' = [connections EXCEPT ![pool_i] = "Disconnected"]
            /\ pool_i' = pool_i + 1
            /\ UNCHANGED pool_pc
       ELSE /\ pool_pc' = [pool_pc EXCEPT !["clear"] = "write"]
            /\ UNCHANGED <<connections, pool_i>>
    /\ UNCHANGED <<poolOthers, pool_held>>

\* `self.connections.write().await` is granted once no guard is held on the
\* lock; the statement pushes the manager (line 417, initialize having
\* returned Ok with the aggregate Connected or Error) or clears the vector
\* (line 443), drops the guard, and the call returns Ok, dropping its locals.
PoolWrite(t) ==
    /\ pool_pc[t] = "write"
    /\ \A u \in PoolCalls : pool_held[u] = {}
    /\ IF t = "add_connection"
       THEN \E kind \in {"Connected", "Error"} :
               connections' = Append(connections, kind)
       ELSE connections' = <<>>
    /\ pool_pc' = [pool_pc EXCEPT ![t] = "idle"]
    /\ pool_held' = [pool_held EXCEPT ![t] = {}]
    /\ UNCHANGED <<poolOthers, pool_i>>

PoolNext ==
    \/ \E t \in PoolCalls : PoolEnter(t)
    \/ \E ok \in BOOLEAN : AddInitialize(ok)
    \/ ClearRead
    \/ ClearIterate
    \/ \E t \in PoolCalls : PoolWrite(t)

\* A task that can take a step of clear() takes it.
PoolFairness ==
    /\ WF_vars(ClearRead)
    /\ WF_vars(ClearIterate)
    /\ WF_vars(PoolWrite("clear"))

----------------------------------------------------------------------------
(***************************************************************************)
(* EVMClient::execute_with_timeout (old/rust/src/evm/client.rs:301-327)    *)
(***************************************************************************)
NoResult == [kind |-> "none"]

\* What a call of f() under timeout(..) comes to: f's own result in time
\* (Ok(Ok(v)), Ok(Err(e))), or Err(Elapsed).
CallOutcomes == {"v1", "v2", "err", "elapsed"}

RetryIdle ==
    /\ max_retries = 0
    /\ timeout = 1
    /\ rt_pc = "idle"
    /\ rt_attempt = 0
    /\ rt_calls = <<>>
    /\ rt_sleeps = <<>>
    /\ last_error = NoResult
    /\ rt_result = NoResult

\* execute_with_timeout is entered with any configuration: last_error =
\* None (line 305), the range 1..=max_retries at its first value (line 307)
RetryInit ==
    /\ max_retries \in 0..MaxRetries
    /\ timeout \in 1..MaxTimeout
    /\ rt_pc = "for"
    /\ rt_attempt = 1
    /\ rt_calls = <<>>
    /\ rt_sleeps = <<>>
    /\ last_error = NoResult
    /\ rt_result = NoResult

\* lines 308-321: one pass of the loop body: f() is called under the
\* timeout; its result in time is returned, a timeout is noted in last_error
RetryAttempt(outcome) ==
    /\ rt_pc = "for"
    /\ rt_attempt <= max_retries
    /\ rt_calls' = Append(rt_calls, outcome)
    /\ IF outcome # "elapsed"
       THEN /\ rt_result' = [kind |-> "f", value |-> outcome]
            /\ rt_pc' = "returned"
            /\ UNCHANGED <<last_error, rt_attempt>>
       ELSE /\ last_error' = [kind |-> "Timeout", seconds |-> timeout,
                              attempt |-> rt_attempt, of |-> max_retries]
            /\ IF rt_attempt < max_retries
               THEN rt_pc' = "sleep" /\ UNCHANGED rt_attempt
               ELSE rt_pc' = "for" /\ rt_attempt' = rt_attempt + 1
            /\ UNCHANGED rt_result
    /\ UNCHANGED <<retryOthers, max_retries, timeout, rt_sleeps>>

\* A backoff growing with the square of the attempt.
QuadraticBackoff(k) == 1000 * k * k

\* line 320: Duration::from_millis(1000 * attempt as u64); the cast binds
\* tighter than the product, which is a u64 and cannot overflow for a u32
Backoff(k) == 1000 * k

\* lines 319-321: sleep(..) before the next attempt
RetrySleep ==
    /\ rt_pc = "sleep"
    /\ rt_sleeps' = Append(rt_sleeps, Backoff(rt_attempt))
    /\ rt_attempt' = rt_attempt + 1
    /\ rt_pc' = "for"
    /\ UNCHANGED <<retryOthers, max_retries, timeout, rt_calls, last_error, rt_result>>

\* line 326: the range is exhausted: Err(last_error.unwrap_or_else(Unknown))
RetryExhausted ==
    /\ rt_pc = "for"
    /\ rt_attempt > max_retries
    /\ rt_result' = IF last_error = NoResult THEN [kind |-> "Unknown"] ELSE last_error
    /\ rt_pc' = "returned"
    /\ UNCHANGED <<retryOthers, max_retries, timeout, rt_attempt, rt_calls,
                   rt_sleeps, last_error>>

RetryNext ==
    \/ \E outcome \in CallOutcomes : RetryAttempt(outcome)
    \/ RetrySleep
    \/ RetryExhausted

----------------------------------------------------------------------------
(* The specifications: one component runs, the others stay as constructed *)

DefaultConfig ==
    [connection_type |-> "Both", substrate_endpoint |-> TRUE,
     evm_endpoint |-> TRUE, auto_reconnect |-> TRUE]

CombIdle == comb_in = <<Disconnected, Disconnected>> /\ comb_out = NoStatus
ConnIdle == ConnInit /\ config = DefaultConfig

ListenerIdle == ListenerInit /\ el_config = DefaultListenerConfig

AddressIdle ==
    /\ keccak256 = <<>>
    /\ ua_trace = <<>>
    /\ ua_calls = <<>>
    /\ ua_same = <<>>

BalanceIdle ==
    /\ bc_cache = EmptyMap
    /\ ttl_seconds = 1
    /\ now = 0
    /\ overflow_checks = FALSE
    /\ bc_ret = [op |-> "new", key |-> 0, value |-> Unit]

InitSpecCache ==
    CacheInit /\ CombIdle /\ ConnIdle /\ ListenerIdle /\ AddressIdle /\ BalanceIdle
    /\ LockInit /\ PoolInit /\ RetryIdle /\ Unsettled
SpecCache == InitSpecCache /\ [][CacheNext]_vars

AddsNext == \E event \in ProcessedEvent : AddEvent(event)
InitSpecCacheAdds ==
    CacheInit /\ CombIdle /\ ConnIdle /\ ListenerIdle /\ AddressIdle /\ BalanceIdle
    /\ LockInit /\ PoolInit /\ RetryIdle /\ Unsettled
SpecCacheAdds == InitSpecCacheAdds /\ [][AddsNext]_vars

InitSpecAddress ==
    CacheInit /\ CombIdle /\ ConnIdle /\ ListenerIdle /\ AddressInit /\ BalanceIdle
    /\ LockInit /\ PoolInit /\ RetryIdle /\ Unsettled
SpecAddress == InitSpecAddress /\ [][AddressNext]_vars

InitSpecBalance ==
    CacheInit /\ CombIdle /\ ConnIdle /\ ListenerIdle /\ AddressIdle /\ BalanceInit
    /\ LockInit /\ PoolInit /\ RetryIdle /\ Unsettled
SpecBalance == InitSpecBalance /\ [][BalanceNext]_vars

InitSpecLocks ==
    CacheInit /\ CombIdle /\ ConnIdle /\ ListenerIdle /\ AddressIdle /\ BalanceIdle
    /\ LockInit /\ PoolInit /\ RetryIdle /\ Unsettled
SpecLocks == InitSpecLocks /\ [][LockNext]_vars

InitSpecPool ==
    CacheInit /\ CombIdle /\ ConnIdle /\ ListenerIdle /\ AddressIdle /\ BalanceIdle
    /\ LockInit /\ PoolInit /\ RetryIdle /\ Unsettled
SpecPoolFair == InitSpecPool /\ [][PoolNext]_vars /\ PoolFairness

InitSpecRetry ==
    CacheInit /\ CombIdle /\ ConnIdle /\ ListenerIdle /\ AddressIdle /\ BalanceIdle
    /\ LockInit /\ PoolInit /\ RetryInit /\ Unsettled
\* Every attempt ends, by f's completion or by the timeout, and so does every
\* sleep: the task running execute_with_timeout goes on while it can.
SpecRetry == InitSpecRetry /\ [][RetryNext]_vars /\ WF_vars(RetryNext)

InitSpecCacheConcurrent ==
    CacheInit /\ CombIdle /\ ConnIdle /\ ListenerIdle /\ AddressIdle /\ BalanceIdle
    /\ LockInit /\ PoolInit /\ RetryIdle /\ Unsettled
SpecCacheConcurrent == InitSpecCacheConcurrent /\ [][ConcurrentCacheNext]_vars

InitSpecStatus ==
    CacheInit /\ CombInit /\ ConnIdle /\ ListenerIdle /\ AddressIdle /\ BalanceIdle
    /\ LockInit /\ PoolInit /\ RetryIdle /\ Unsettled
SpecStatus == InitSpecStatus /\ [][CombNext]_vars

InitSpecManager ==
    CacheInit /\ CombIdle /\ ConnInit /\ ListenerIdle /\ AddressIdle /\ BalanceIdle
    /\ LockInit /\ PoolInit /\ RetryIdle /\ Unsettled
SpecManager == InitSpecManager /\ [][ManagerNext]_vars

InitSpecRace ==
    CacheInit /\ CombIdle /\ ConnInit /\ ListenerIdle /\ AddressIdle /\ BalanceIdle
    /\ LockInit /\ PoolInit /\ RetryIdle /\ Unsettled
SpecRace == InitSpecRace /\ [][RaceNext]_vars

InitSpecMonitor ==
    CacheInit /\ CombIdle /\ ConnInit /\ ListenerIdle /\ AddressIdle /\ BalanceIdle
    /\ LockInit /\ PoolInit /\ RetryIdle /\ Unsettled
SpecMonitor == InitSpecMonitor /\ [][MonitorNext]_vars

InitSpecRecover ==
    CacheInit /\ CombIdle /\ ConnInit /\ ListenerIdle /\ AddressIdle /\ BalanceIdle
    /\ LockInit /\ PoolInit /\ RetryIdle /\ Unsettled /\ config \in RecoverConfigs
SpecRecover == InitSpecRecover /\ [][RecoverNext]_vars /\ MonitorFairness

InitSpecListener ==
    CacheInit /\ CombIdle /\ ConnIdle /\ ListenerInit /\ AddressIdle /\ BalanceIdle
    /\ LockInit /\ PoolInit /\ RetryIdle /\ Unsettled
SpecListener == InitSpecListener /\ [][ListenerNext]_vars

InitSpecPolling ==
    CacheInit /\ CombIdle /\ ConnIdle /\ ListenerInit /\ AddressIdle /\ BalanceIdle
    /\ LockInit /\ PoolInit /\ RetryIdle /\ Unsettled
SpecPolling == InitSpecPolling /\ [][PollingNext]_vars

\* The runtime keeps scheduling a spawned loop and its sleep ends: a loop
\* reads its starting cursor, and goes through an iteration the node answers,
\* whenever this stays possible.  Nothing obliges the chain to produce blocks,
\* the node to fail or the caller to call.
PollerAnswered(l) == PollerTick(l) /\ el_pc'[l] # "failed"
PollerCursorAnswered(l) == PollerCursor(l) /\ el_pc'[l] # "failed"
PollingFairness ==
    \A l \in Pollers :
        /\ WF_vars(PollerCursorAnswered(l))
        /\ WF_vars(PollerAnswered(l))
InitSpecPollingFair ==
    CacheInit /\ CombIdle /\ ConnIdle /\ ListenerInit /\ AddressIdle /\ BalanceIdle
    /\ LockInit /\ PoolInit /\ RetryIdle /\ Unsettled
SpecPollingFair ==
    InitSpecPollingFair /\ [][PollingNext]_vars /\ PollingFairness

----------------------------------------------------------------------------
(* Claims on the EventCache *)

\* Every identifier of a sequence-valued index `idx` is a key of the store.
IndexWithinStore(idx) ==
    \A k \in DOMAIN idx : \A i \in 1..Len(idx[k]) : idx[k][i] \in DOMAIN events

\* C1: after any sequence of add and clear_before calls, every identifier
\* listed in the block-number index or in the contract-address index is a key
\* of the primary store.
C1_IndicesWithinStore ==
    IndexWithinStore(by_block) /\ IndexWithinStore(by_address)

\* The identity key of a record: (block number, transaction hash, log index).
IdentityKey(event) ==
    <<event.block_number, event.transaction_hash, event.log_index>>

\* C2: the cache never holds two distinct stored entries for the same
\* (block number, transaction hash, log index) tuple.
C2_OneEntryPerIdentity ==
    \A h1, h2 \in DOMAIN events :
        IdentityKey(events[h1]) = IdentityKey(events[h2]) => h1 = h2


----------------------------------------------------------------------------
(* Claims on the status combination *)

\* C3: for every pair of per-chain statuses the aggregate follows the
\* combination table: Connected+Connected gives Connected; Error+Error gives
\* Error; exactly one Error gives Error; Connecting with Connected gives
\* Connecting; Reconnecting with Connected gives Reconnecting; Disconnected
\* with Connected gives Connected; and the variant of the result is the same
\* with the two chains' values exchanged.
C3_CombinationTable ==
    comb_out # NoStatus =>
        LET s == comb_in[1].kind
            e == comb_in[2].kind
            o == comb_out.kind
        IN  /\ (s = "Connected" /\ e = "Connected") => o = "Connected"
            /\ (s = "Error" \/ e = "Error") => o = "Error"
            /\ {s, e} = {"Connecting", "Connected"} => o = "Connecting"
            /\ {s, e} = {"Reconnecting", "Connected"} => o = "Reconnecting"
            /\ {s, e} = {"Disconnected", "Connected"} => o = "Connected"
            /\ o = OverallStatus(comb_in[2], comb_in[1]).kind

\* The combination has been computed for one failed and one connected chain.
C3_Witness ==
    /\ comb_out.kind = "Error"
    /\ comb_in[1] = Connected
    /\ comb_in[2].kind = "Error"

----------------------------------------------------------------------------
(* Claims on ConnectionManager::initialize *)

\* The caller's initialize() (alone or as the second half of reconnect())
\* has returned.
InitializeReturned ==
    pc[Caller] = "idle" /\ op[Caller] \in {"initialize", "reconnect"}

BothChains ==
    /\ config.connection_type = "Both"
    /\ config.substrate_endpoint
    /\ config.evm_endpoint

\* Both chains configured; the Substrate attempt succeeded, the EVM one failed.
C4_Scenario ==
    /\ InitializeReturned
    /\ BothChains
    /\ attempt[Caller] = [substrate |-> "ok", evm |-> "fail"]

\* C4 as stated: in that scenario the aggregate status() is Connected while
\* evm_status() is Error.
C4_PartialIsConnected ==
    C4_Scenario => (status = Connected /\ evm_status.kind = "Error")

\* C4 amended: in that scenario initialize() returns Ok, evm_status() is Error,
\* substrate_status() is Connected and the aggregate status() is
\* Error("One connection failed: <the EVM error>").
C4_PartialIsError ==
    C4_Scenario =>
        /\ result[Caller] = "Ok"
        /\ evm_status.kind = "Error"
        /\ substrate_status = Connected
        /\ status = Error(<<"One connection failed">> \o evm_status.reason)

C4_Witness == C4_Scenario /\ substrate_connection = "Some"

\* Both chains configured and exactly one of the connection attempts failed.
C5_Scenario ==
    /\ InitializeReturned
    /\ BothChains
    /\ (attempt[Caller].substrate = "fail") # (attempt[Caller].evm = "fail")

\* C5: then the other chain was attempted too, initialize() returned Ok, the
\* failing chain's status is Error and the other chain's status is Connected
\* with its handle present.
C5_SingleFailureTolerated ==
    C5_Scenario =>
        /\ result[Caller] = "Ok"
        /\ IF attempt[Caller].substrate = "fail"
           THEN /\ attempt[Caller].evm = "ok"
                /\ substrate_status.kind = "Error"
                /\ evm_status = Connected
                /\ evm_client = "Some"
           ELSE /\ attempt[Caller].substrate = "ok"
                /\ evm_status.kind = "Error"
                /\ substrate_status = Connected
                /\ substrate_connection = "Some"

\* The Substrate attempt failed and the EVM attempt, made after it, succeeded.
C5_Witness ==
    /\ C5_Scenario
    /\ attempt[Caller] = [substrate |-> "fail", evm |-> "ok"]
    /\ evm_client = "Some"

\* Exactly one chain is configured and its connection attempt failed.
C6_Scenario ==
    /\ InitializeReturned
    /\ \/ config.connection_type = "Substrate" /\ attempt[Caller].substrate = "fail"
       \/ config.connection_type = "EVM" /\ attempt[Caller].evm = "fail"

\* C6: then initialize() returned a ConnectionError and both the aggregate
\* status and that chain's status are Error.
C6_SingleChainFailureFatal ==
    C6_Scenario =>
        /\ result[Caller] = "ConnectionError"
        /\ status.kind = "Error"
        /\ IF config.connection_type = "Substrate"
           THEN substrate_status.kind = "Error"
           ELSE evm_status.kind = "Error"

C6_Witness == C6_Scenario /\ config.connection_type = "EVM"

----------------------------------------------------------------------------
(* Claims on the HealthMonitor *)

\* C7: a failure of one chain never takes away the other chain's established
\* connection: when a monitor loop reconnects because of a health check that
\* found one chain healthy, that chain's handle stays present and its status
\* stays Connected.
C7_OtherChainStaysAvailable ==
    [][\A l \in Loops :
        (pc[l] = "hm_reconnect" /\ pc'[l] # "hm_reconnect") =>
            /\ (/\ health[l].substrate_healthy
                /\ substrate_connection = "Some"
                /\ substrate_status = Connected)
               => (substrate_connection' = "Some" /\ substrate_status' = Connected)
            /\ (/\ health[l].evm_healthy
                /\ evm_client = "Some"
                /\ evm_status = Connected)
               => (evm_client' = "Some" /\ evm_status' = Connected)]_vars

C9_StopObservedAtNextCheck ==
    [][\A l \in Loops :
        /\ (pc[l] = "hm_check" /\ pc'[l] # "hm_check" /\ ~running)
              => pc'[l] = "done"
        /\ (pc'[l] = "hm_probe" /\ pc[l] # "hm_probe")
              => (pc[l] = "hm_check" /\ running)
        /\ (pc[l] = "done" /\ pc'[l] # "done")
              => (~running /\ running')]_vars

\* A loop has ended after stop().
C9_Witness ==
    \E l \in Loops : pc[l] = "done" /\ ~running /\ ever_stopped

----------------------------------------------------------------------------
(* Claims on the EventListener *)

\* C10: after stop() (and no start() since), a polling loop that begins an
\* iteration observes the stop request and ends: the iteration issues no log
\* query, delivers no record to handlers or to the stream, and the loop does
\* not go on to another iteration.
C10_StopObservedByPollingLoop ==
    [][\A l \in Pollers :
        (~el_running /\ PollerTick(l)) =>
            /\ el_pc'[l] # "loop"
            /\ last_query'[l] = last_query[l]
            /\ channel'[l] = channel[l]
            /\ handled'[l] = handled[l]]_vars

\* C11: start() called on a listener that is Running (the caller's previous
\* call was a start(), so a start() has succeeded since the last stop())
\* returns AlreadyRunning and spawns no polling loop: no loop changes its
\* position and no channel is made.
C11_StartWhileRunningRefused ==
    [][(ListenerStart /\ el_op = "start") =>
          /\ el_result' = "AlreadyRunning"
          /\ el_pc' = el_pc
          /\ rx_alive' = rx_alive
          /\ channel' = channel
          /\ el_running']_vars

\* start() has been refused while a loop of the earlier start() polls.
C11_Witness ==
    /\ el_op = "start"
    /\ el_result = "AlreadyRunning"
    /\ ActivePollers # {}

C13_IdleTickAndMonotoneCursor ==
    [][\A l \in Pollers :
        el_pc[l] = "loop" =>
            /\ head <= last_block[l] =>
                  /\ last_query'[l] = last_query[l]
                  /\ last_block'[l] = last_block[l]
                  /\ channel'[l] = channel[l]
                  /\ handled'[l] = handled[l]
            /\ last_block'[l] >= last_block[l]]_vars

\* A loop has queried up to the current head: its next iteration observes
\* an unchanged head.
C13_Witness ==
    \E l \in Pollers :
        /\ el_pc[l] = "loop"
        /\ last_query[l] # NoQuery
        /\ last_query[l][2] = head
        /\ last_block[l] = head

C15_QueryFailureEndsLoop ==
    [][\A l \in Pollers :
        /\ (l \in ActivePollers /\ el_pc'[l] = "failed") =>
              /\ last_block'[l] = last_block[l]
              /\ channel'[l] = channel[l]
              /\ handled'[l] = handled[l]
              /\ StreamNext(l, Len(channel[l]))'.kind = "None"
        /\ (el_pc[l] = "loop" /\ last_query'[l] # last_query[l]
               /\ last_block'[l] # last_query'[l][2]) =>
              el_pc'[l] \in {"failed", "done"}
        /\ el_pc[l] = "failed" =>
              /\ el_pc'[l] \in {"failed", "cursor"}
              /\ el_pc'[l] = "failed" =>
                    /\ last_query'[l] = last_query[l]
                    /\ last_block'[l] = last_block[l]
                    /\ channel'[l] = channel[l]
                    /\ handled'[l] = handled[l]]_vars

\* A loop has ended on a failed log query: the query was issued and the
\* cursor is below its upper bound.
C15_Witness ==
    \E l \in Pollers :
        /\ el_pc[l] = "failed"
        /\ last_query[l] # NoQuery
        /\ last_block[l] < last_query[l][2]
        /\ rx_alive[l]

\* The elements i+1.. of the sequence s.
Rest(s, i) == SubSeq(s, i + 1, Len(s))

\* The invocations among `invs` that were made for the record r.
InvocationsFor(invs, r) ==
    LET For(x) == x.event = r IN SelectSeq(invs, For)

\* C16: in every iteration of a polling loop that delivers: the records sent
\* on the channel are the first records of the query's result, in its order;
\* for each of them the handlers invoked are exactly the handlers registered
\* under its signature, each once, in registration order, and all of them
\* before the record was sent; and every invocation made is of a handler
\* registered under the signature of the record it is given.
C16_HandlersThenChannelInOrder ==
    [][\A l \in Pollers :
        (el_pc[l] = "loop"
            /\ (channel'[l] # channel[l] \/ handled'[l] # handled[l])) =>
            LET sent == Rest(channel'[l], Len(channel[l]))
                invs == Rest(handled'[l], Len(handled[l]))
                logs == GetLogs(last_query'[l][1], last_query'[l][2])
            IN  /\ Len(sent) <= Len(logs)
                /\ sent = SubSeq(logs, 1, Len(sent))
                /\ el_pc'[l] = "loop" => sent = logs
                /\ \A i \in 1..Len(sent) :
                      LET mine == InvocationsFor(invs, sent[i])
                          hs == event_handlers[sent[i].signature]
                      IN  /\ Len(mine) = Len(hs)
                          /\ \A j \in 1..Len(hs) :
                                /\ mine[j].handler = hs[j]
                                /\ mine[j].sent = Len(channel[l]) + i - 1
                /\ \A j \in 1..Len(invs) :
                      \E i \in 1..Len(event_handlers[invs[j].event.signature]) :
                          event_handlers[invs[j].event.signature][i]
                              = invs[j].handler]_vars

\* Two handlers are registered under one signature and a loop has passed a
\* record of that signature to both and sent it, after a record of the other
\* signature.
C16_Witness ==
    \E l \in Pollers : \E sig \in Signatures :
        /\ Len(event_handlers[sig]) = 2
        /\ Len(handled[l]) = 2
        /\ Len(channel[l]) = 2
        /\ channel[l][2].signature = sig

\* The EventCache holds an entry for the record r of the polling loop (the
\* chain of the model has one log per block).
Cached(r) == \E h \in DOMAIN events : events[h].block_number = r.block_number

\* C17: every record a polling loop has passed to a handler or sent on its
\* channel is in the EventCache.
C17_DeliveredRecordsCached ==
    \A l \in Pollers :
        /\ \A i \in 1..Len(channel[l]) : Cached(channel[l][i])
        /\ \A i \in 1..Len(handled[l]) : Cached(handled[l][i].event)

----------------------------------------------------------------------------
(* Claims on the reads of the EventCache *)

Thresholds == 0..(MaxBlock + 1)

\* C18: after clear_before(n), on any content of the cache, get_events_by_block(m)
\* is empty for every m < n and is what it was before the call for every
\* m >= n, and get_events_in_range returns no event of a block below n.
C18_ClearBeforeByBlock ==
    [][\A n \in Thresholds :
        ClearBefore(n) =>
            /\ \A m \in Thresholds :
                  IF m < n
                  THEN GetEventsByBlock(m)' = <<>>
                  ELSE GetEventsByBlock(m)' = GetEventsByBlock(m)
            /\ \A event \in GetEventsInRange(0, MaxBlock + 1)' :
                  event.block_number >= n
            /\ GetEventsInRange(n, MaxBlock + 1)'
                  = GetEventsInRange(n, MaxBlock + 1)]_vars

\* Two events were added, of blocks 1 and 2, and clear_before(2) has removed
\* the first and kept the second (the rebuilt address index marks the call).
C18_Witness ==
    /\ n_adds = 2
    /\ DOMAIN by_block = {2}
    /\ Len(GetEventsByBlock(2)) = 1
    /\ GetEventsByBlock(1) = <<>>
    /\ \E a \in DOMAIN by_address : by_address[a] = <<ZeroHash>>

\* The set of the elements of the sequence s.
Elements(s) == {s[i] : i \in 1..Len(s)}

\* C19: after clear_before(n), for every address a, get_events_by_address(a)
\* returns exactly the retained events (block number >= n) emitted by a.
C19_ClearBeforeByAddress ==
    [][\A n \in Thresholds :
        ClearBefore(n) =>
            \A a \in Addresses :
                Elements(GetEventsByAddress(a)')
                    = {events[h] : h \in {x \in DOMAIN events :
                                            /\ events[x].block_number >= n
                                            /\ events[x].contract_address = a}}]_vars

\* C20: under any interleaving of concurrent add_event and clear_before
\* calls, at every moment a reader can run, no index lists an identifier that
\* is missing from the primary store: a read through either index finds an
\* event for every identifier the index lists.
C20_ReadsFindEveryIndexedEvent ==
    /\ \A b \in DOMAIN by_block :
          Len(GetEventsByBlock(b)) = Len(by_block[b])
    /\ \A a \in DOMAIN by_address :
          Len(GetEventsByAddress(a)) = Len(by_address[a])

\* The sequence s lists every element of the set S once and nothing else.
ListsExactlyOnce(s, S) ==
    /\ Elements(s) = S
    /\ \A i, j \in 1..Len(s) : s[i] = s[j] => i = j

\* C21: after any sequence of add_event calls, get_events_by_block(n) returns
\* each stored event of block n exactly once and nothing else, and
\* get_events_by_address(a) each stored event emitted by a exactly once and
\* nothing else.
C21_ReadsListStoredEventsOnce ==
    /\ \A n \in Blocks :
          ListsExactlyOnce(GetEventsByBlock(n),
              {events[h] : h \in {x \in DOMAIN events : events[x].block_number = n}})
    /\ \A a \in Addresses :
          ListsExactlyOnce(GetEventsByAddress(a),
              {events[h] : h \in {x \in DOMAIN events : events[x].contract_address = a}})

\* The conversions named were applied, in this order, to an address of the
\* variant `tag`.
Converted(tag, calls) == ua_trace[1].tag = tag /\ ua_calls = calls

MarkerLayout(address) ==
    <<EthereumPrefix>> \o address \o [i \in 1..(AccountIdLen - AddressLen - 1) |-> 0]

\* C23: to_substrate of an EVM or an H160 address is the byte 0x6D, the 20
\* address bytes and 11 zero bytes, so that to_evm of the result gives the
\* 20 bytes back, for both variants.
C23_BothVariantsMarked ==
    \A tag \in {"EVM", "H160"} :
        /\ (ua_trace[1].tag = tag /\ Len(ua_calls) >= 1 /\ ua_calls[1] = "to_substrate")
              => ua_trace[2].bytes = MarkerLayout(ua_trace[1].bytes)
        /\ Converted(tag, <<"to_substrate", "to_evm">>)
              => ua_trace[3].bytes = ua_trace[1].bytes

\* C24: for every account id s whose first byte is 0x6D, converting it to
\* the contract space and back gives s again.
C24_MarkedRoundTrip ==
    (Converted("Substrate", <<"to_evm", "to_substrate">>)
        /\ ua_trace[1].bytes[1] = EthereumPrefix)
    => ua_trace[3] = ua_trace[1]

\* C25: for every native account id b (first byte other than 0x6D),
\* converting it to the contract space and back gives a value other than b.
C25_NativeNeverRoundTrips ==
    (Converted("Substrate", <<"to_evm", "to_substrate">>)
        /\ ua_trace[1].bytes[1] # EthereumPrefix)
    => ua_trace[3] # ua_trace[1]

C25_Witness ==
    /\ Converted("Substrate", <<"to_evm", "to_substrate">>)
    /\ ua_trace[1].bytes[1] # EthereumPrefix

\* The same 20 bytes under the other of the tags EVM and H160.
Retagged(a) ==
    CASE a.tag = "EVM" -> [a EXCEPT !.tag = "H160"]
      [] a.tag = "H160" -> [a EXCEPT !.tag = "EVM"]
      [] OTHER -> a

\* Converting a into the space of b gives the bytes of b.
ConvertsTo(a, b) ==
    IF b.tag = "Substrate" THEN ToSubstrate(a) = b.bytes ELSE ToEvm(a) = b.bytes

\* C26: are_same_entity(a, b) is true whenever converting one address into
\* the other's space gives equal bytes, whatever the order of the arguments
\* and whichever of the tags EVM and H160 a 20-byte address carries; an
\* account id and the EVM address derived from it are the same entity.
C26_SameEntitySymmetric ==
    ua_same # <<>> =>
        LET a == ua_trace[1]
            b == ua_same[1]
        IN  /\ (ConvertsTo(a, b) \/ ConvertsTo(b, a)) => ua_same[2]
            /\ ua_same[2] = AreSameEntity(b, a)
            /\ ua_same[2] = AreSameEntity(Retagged(a), Retagged(b))

\* C27: set(key, v) stores v with the clock reading t0 of the call, and a
\* get(key) made at a clock reading t >= t0 returns that entry exactly when
\* t - t0 < ttl, and nothing otherwise.
C27_GetWithinTtl ==
    /\ [][\A key \in 1..MaxKeys, v \in {"b1", "b2"} :
            Set(key, v) => bc_cache'[key] = [balance |-> v, timestamp |-> now]]_vars
    /\ [](\A key \in DOMAIN bc_cache :
            (bc_ret.op = "get" /\ bc_ret.key = key /\ bc_cache[key].timestamp <= now)
            => bc_ret.value =
                  IF now - bc_cache[key].timestamp < ttl_seconds
                  THEN [kind |-> "Some", cached |-> bc_cache[key]]
                  ELSE NoBalance)

C27_Witness ==
    /\ bc_ret.op = "get"
    /\ bc_ret.value.kind = "Some"
    /\ bc_ret.value.cached.timestamp < now

C29_TotalUnderEarlierClock ==
    /\ bc_ret.value # Panic
    /\ \A key \in DOMAIN bc_cache :
          (bc_ret.op = "get" /\ bc_ret.key = key /\ now < bc_cache[key].timestamp)
          => bc_ret.value = NoBalance

\* Both handles absent, the aggregate and both per-chain statuses Disconnected.
AllDisconnected ==
    /\ substrate_connection = "None"
    /\ evm_client = "None"
    /\ status = Disconnected
    /\ substrate_status = Disconnected
    /\ evm_status = Disconnected

\* C30: disconnect() returns Ok and leaves both handles absent and the three
\* statuses Disconnected whatever the state before it; a disconnect() made
\* right after a disconnect() changes none of the manager's fields.
C30_DisconnectResetsAndIdempotent ==
    [][CallDisconnect =>
          /\ AllDisconnected'
          /\ result'[Caller] = "Ok"
          /\ op[Caller] = "disconnect" => managerVars' = managerVars]_vars

\* disconnect() has returned on a manager whose initialize() had connected
\* both chains.
C30_Witness ==
    /\ pc[Caller] = "idle"
    /\ op[Caller] = "disconnect"
    /\ attempt[Caller] = [substrate |-> "ok", evm |-> "ok"]
    /\ AllDisconnected

\* C31: in an iteration of the monitor loop reconnect() is called exactly
\* when the health check reported overall unhealthy and auto_reconnect is
\* set; the iteration goes on to its sleep whatever the health check and the
\* reconnect returned, the caller's result is not touched, and the loop
\* ends only at an observation of the flag that finds it unset.
C31_ReconnectIffUnhealthyAndAuto ==
    [][\A l \in Loops :
        /\ (pc[l] = "hm_probe" /\ pc'[l] # "hm_probe") =>
              /\ pc'[l] \in {"hm_reconnect", "hm_sleep"}
              /\ pc'[l] = "hm_reconnect"
                    <=> (~OverallHealthy(health'[l]) /\ config.auto_reconnect)
        /\ (pc'[l] = "hm_reconnect" /\ pc[l] # "hm_reconnect")
              => pc[l] = "hm_probe"
        /\ (pc[l] = "hm_reconnect" /\ pc'[l] # "hm_reconnect")
              => pc'[l] = "hm_sleep"
        /\ (pc[l] = "hm_sleep" /\ pc'[l] # "hm_sleep") => pc'[l] = "hm_check"
        /\ (pc[l] \in {"hm_probe", "hm_reconnect", "hm_sleep"} /\ pc'[l] # pc[l])
              => (result'[Caller] = result[Caller] /\ pc'[Caller] = pc[Caller])
        /\ (pc'[l] = "done" /\ pc[l] # "done")
              => (pc[l] = "hm_check" /\ ~running)]_vars

\* A loop goes to its sleep after a reconnect() that failed; another state
\* where an unhealthy result was not followed by a reconnect.
C31_Witness ==
    \E l \in Loops :
        /\ pc[l] = "hm_sleep"
        /\ result[l] = "ConnectionError"
        /\ ~OverallHealthy(health[l])
        /\ running

\* C32: with from_block = Number(n) the bound is inclusive: the first log
\* query of a polling loop starts at block n or before it, so that block n
\* lies within the ranges the loop's (adjacent) queries cover, and the
\* record of block n is delivered with that query's records.
C32_FromBlockInclusive ==
    [][\A l \in Pollers :
        (/\ el_config.from_block.kind = "Number"
         /\ last_query[l] = NoQuery
         /\ last_query'[l] # NoQuery)
        => /\ last_query'[l][1] <= el_config.from_block.n
           /\ (el_pc'[l] = "loop" /\ rx_alive[l] /\ last_query'[l][2] >= el_config.from_block.n)
                 => \E i \in 1..Len(channel'[l]) :
                        channel'[l][i].block_number = el_config.from_block.n]_vars

\* C33: at any time at most one monitoring loop of the HealthMonitor is
\* active, whatever start() and stop() calls were made.
C33_AtMostOneMonitorLoop == Cardinality(ActiveLoops) <= 1

\* C34: the listener's running flag is set exactly when a polling loop it
\* spawned is active, and at most one polling loop is active.
C34_FlagMeansLoopActive ==
    /\ el_running <=> ActivePollers # {}
    /\ Cardinality(ActivePollers) <= 1

\* C35: whenever the caller is between two calls, each chain's connection
\* handle is present exactly when that chain's status is Connected.
C35_HandleIffConnected ==
    pc[Caller] = "idle" =>
        /\ substrate_connection = "Some" <=> substrate_status = Connected
        /\ evm_client = "Some" <=> evm_status = Connected

\* Every task is outside the manager's code and some call has been made.
AllReturned ==
    /\ \A t \in Tasks : pc[t] \in {"idle", "none"}
    /\ \E t \in Tasks : op[t] # "none"

\* C36: once concurrently executing initialize()/reconnect() and disconnect()
\* calls have all returned, the aggregate status is the combination of the
\* two stored per-chain statuses (the Error reason aside), and a handle is
\* present only if its chain's status is Connected.
C36_ConsistentAfterConcurrentCalls ==
    AllReturned =>
        /\ status.kind = OverallStatus(substrate_status, evm_status).kind
        /\ substrate_connection = "Some" => substrate_status = Connected
        /\ evm_client = "Some" => evm_status = Connected

\* Call t waits for a guard that a guard held by call u excludes.
WaitsFor(t, u) ==
    /\ lk_pos[t] > 0
    /\ LockPlan(t)[lk_pos[t]].mode # "drop"
    /\ Excludes(u, LockPlan(t)[lk_pos[t]].lock, LockPlan(t)[lk_pos[t]].mode)

\* C37: clear_before running concurrently with get_events_by_block or
\* get_events_by_address never comes to wait for a guard the read holds
\* while the read waits for a guard clear_before holds: no deadlock.
C37_NoLockOrderDeadlock ==
    \A t \in {"get_events_by_block", "get_events_by_address"} :
        ~(WaitsFor("clear_before", t) /\ WaitsFor(t, "clear_before"))


\* C38: ConnectionPool::clear() terminates for every content of the pool, and
\* when it returns every manager that was in the pool has been disconnected
\* and the pool is empty.
C38_ClearTerminates ==
    /\ (pool_pc["clear"] # "idle") ~> (pool_pc["clear"] = "idle")
    /\ [][(pool_pc["clear"] # "idle" /\ pool_pc'["clear"] = "idle")
            => /\ connections' = <<>>
               /\ \A i \in 1..Len(connections) : connections[i] = "Disconnected"]_vars

\* C39: with the monitor running, auto_reconnect set, an endpoint given for
\* every configured chain and no calls by anyone else: if from some point on
\* every connection attempt and every probe succeeds, the aggregate status
\* eventually is Connected and stays Connected, whatever the manager held.
C39_MonitorRecovers == settled ~> [](status = Connected)

\* The calls of f made so far that timed out are all but possibly the last.
OnlyLastInTime == \A i \in 1..(Len(rt_calls) - 1) : rt_calls[i] = "elapsed"

\* What holds of a call of execute_with_timeout at every moment.
RetryShape ==
    /\ Len(rt_calls) <= max_retries
    /\ OnlyLastInTime
    /\ \A k \in 1..Len(rt_sleeps) : rt_sleeps[k] = 1000 * k
    /\ Len(rt_calls) >= 1 => Len(rt_sleeps) \in {Len(rt_calls) - 1, Len(rt_calls)}
    /\ rt_pc = "returned" =>
          /\ max_retries >= 1 => Len(rt_calls) >= 1
          /\ Len(rt_sleeps) = (IF rt_calls = <<>> THEN 0 ELSE Len(rt_calls) - 1)
          /\ (rt_calls # <<>> /\ rt_calls[Len(rt_calls)] # "elapsed") =>
                rt_result = [kind |-> "f", value |-> rt_calls[Len(rt_calls)]]
          /\ rt_result.kind = "Timeout" =>
                /\ Len(rt_calls) = max_retries
                /\ \A i \in 1..Len(rt_calls) : rt_calls[i] = "elapsed"
          /\ rt_result.kind = "f" => rt_calls # <<>>

\* C40: for every max_retries, 0 included, execute_with_timeout terminates;
\* when max_retries >= 1 it calls f at least once and at most max_retries
\* times; it calls f again only after a timeout, having waited 1000*k ms
\* after the k-th timed-out attempt; it returns the result of the first call
\* that completed in time, and a Timeout error only if every call timed out.
C40_BoundedRetry == <>(rt_pc = "returned") /\ []RetryShape

\* f timed out twice, was retried after each backoff, and its third call
\* completed in time.
C40_Witness ==
    /\ rt_pc = "returned"
    /\ Len(rt_calls) = 3
    /\ rt_sleeps = <<1000, 2000>>
    /\ rt_result = [kind |-> "f", value |-> "v1"]
=============================================================================
